---- MODULE Spec2Model ----
(***************************************************************************)
(* The task-tracking service: the Task entity, the file-backed JSONStorage *)
(* of session1_model2 and of session4_model4, and the TaskManager of       *)
(* session1_model2, as state machines over one backing file.               *)
(*                                                                         *)
(* A text (title, description) is modelled by its length; None is the      *)
(* value NoText.  A datetime is a tick, an index into IsoTable.  Every     *)
(* record of a backing file carries the six keys of the file format.       *)
(***************************************************************************)
EXTENDS Integers, Sequences, FiniteSets, TLC

VARIABLES
    file,      \* the backing file: [kind, recs]
    tmp,       \* the temporary file <filepath>.tmp: [kind, recs]
    lock,      \* JSONStorage._lock: the thread holding it, or NoThread
    pc,        \* per thread: [fn, at], the storage/manager function and the place in it
    op,        \* per thread: the top-level call it runs (or ran last)
    cur,       \* per thread: the Task object the running call holds
    data,      \* per thread: the list loaded by _load, then mutated
    seen,      \* per thread: the file content its last _load read
    ret,       \* per thread: what its last call returned or raised
    ncalls,    \* number of calls started so far
    crashed,   \* the process has crashed
    file0,     \* the backing file as it was after construction
    hist,      \* what has happened so far: [overlap, gone, late]
    db         \* session1_model1: the rows of table task, in id order

vars == <<file, tmp, lock, pc, op, cur, data, seen, ret, ncalls, crashed, file0, hist, db>>

(***************************************************************************)
(* Bounds and program constants                                            *)
(***************************************************************************)
MaxCalls == 2
MaxCallsMgr == 3

MaxTitleLen == 200
MaxDescLen == 1000

Threads == {"t1", "t2"}
NoThread == "none"
NoText == -1

(***************************************************************************)
(* models.py: enums, timestamps                                            *)
(***************************************************************************)
StatusValues == {"pending", "in-progress", "completed"}
PriorityValues == {"low", "medium", "high"}

TaskStatus(v) ==
    CASE v = "pending" -> "PENDING"
      [] v = "in-progress" -> "IN_PROGRESS"
      [] v = "completed" -> "COMPLETED"

TaskPriority(v) ==
    CASE v = "low" -> "LOW"
      [] v = "medium" -> "MEDIUM"
      [] v = "high" -> "HIGH"

StatusValue(e) ==
    CASE e = "PENDING" -> "pending"
      [] e = "IN_PROGRESS" -> "in-progress"
      [] e = "COMPLETED" -> "completed"

PriorityValue(e) ==
    CASE e = "LOW" -> "low"
      [] e = "MEDIUM" -> "medium"
      [] e = "HIGH" -> "high"

\* datetime <-> ISO-8601 text, over the ticks of the model
IsoTable == << "2024-01-01T00:00:00", "2024-01-02T00:00:00", "2024-01-03T00:00:00",
               "2024-01-04T00:00:00", "2024-01-05T00:00:00", "2024-01-06T00:00:00" >>

isoformat(n) == IsoTable[n]

IsoParsable(s) == \E n \in DOMAIN IsoTable : IsoTable[n] = s

fromisoformat(s) == CHOOSE n \in DOMAIN IsoTable : IsoTable[n] = s

(***************************************************************************)
(* session4_model4/models.py: Task                                         *)
(***************************************************************************)
Falsy(text) == text = NoText \/ text = 0

\* as Task_validate, but with the limits themselves rejected
Task_validate_exclusive(task) ==
    (IF Falsy(task.title) THEN << "Title is required" >>
     ELSE IF task.title >= MaxTitleLen THEN << "Title must be less than 200 characters" >>
     ELSE << >>)
    \o
    (IF task.description # NoText /\ task.description >= MaxDescLen
     THEN << "Description must be less than 1000 characters" >>
     ELSE << >>)

Task_validate(task) ==
    (IF Falsy(task.title) THEN << "Title is required" >>
     ELSE IF task.title > MaxTitleLen THEN << "Title must be less than 200 characters" >>
     ELSE << >>)
    \o
    (IF task.description # NoText /\ task.description > MaxDescLen
     THEN << "Description must be less than 1000 characters" >>
     ELSE << >>)

Task_to_dict(task) ==
    [ id |-> task.id,
      title |-> task.title,
      description |-> task.description,
      status |-> StatusValue(task.status),
      priority |-> PriorityValue(task.priority),
      created_at |-> isoformat(task.created_at) ]

\* from_dict raises ValueError: a non-empty value that is no member of its enum,
\* or a non-empty created_at that fromisoformat rejects
Task_from_dict_raises(d) ==
    \/ d.status # "" /\ d.status \notin StatusValues
    \/ d.priority # "" /\ d.priority \notin PriorityValues
    \/ d.created_at # "" /\ ~IsoParsable(d.created_at)

Task_from_dict(d, now) ==
    [ id |-> d.id,
      title |-> d.title,
      description |-> d.description,
      status |-> IF d.status # "" THEN TaskStatus(d.status) ELSE "PENDING",
      priority |-> IF d.priority # "" THEN TaskPriority(d.priority) ELSE "MEDIUM",
      created_at |-> IF d.created_at # "" THEN fromisoformat(d.created_at) ELSE now ]

Has(d, k) == k \in DOMAIN d

\* (mutant) validate_task_data that stops at the first violation
validate_task_data_first(d, partial) ==
    IF ~partial /\ (~Has(d, "title") \/ Falsy(d.title)) THEN << "Title is required" >>
    ELSE IF ~partial /\ d.title > MaxTitleLen
    THEN << "Title must be less than 200 characters" >>
    ELSE IF Has(d, "status") /\ d.status \notin StatusValues
    THEN << "Invalid status. Must be: pending, in-progress, or completed" >>
    ELSE IF Has(d, "priority") /\ d.priority \notin PriorityValues
    THEN << "Invalid priority. Must be: low, medium, or high" >>
    ELSE IF Has(d, "description") /\ d.description # NoText /\ d.description > MaxDescLen
    THEN << "Description must be less than 1000 characters" >>
    ELSE << >>

validate_task_data(d, partial) ==
    (IF partial THEN << >>
     ELSE IF ~Has(d, "title") \/ Falsy(d.title) THEN << "Title is required" >>
     ELSE IF d.title > MaxTitleLen THEN << "Title must be less than 200 characters" >>
     ELSE << >>)
    \o
    (IF Has(d, "status") /\ d.status \notin StatusValues
     THEN << "Invalid status. Must be: pending, in-progress, or completed" >> ELSE << >>)
    \o
    (IF Has(d, "priority") /\ d.priority \notin PriorityValues
     THEN << "Invalid priority. Must be: low, medium, or high" >> ELSE << >>)
    \o
    (IF Has(d, "description") /\ d.description # NoText /\ d.description > MaxDescLen
     THEN << "Description must be less than 1000 characters" >> ELSE << >>)

(***************************************************************************)
(* session1_model2's models module (Task, validate_task_data), after the   *)
(* specification's section 4.1                                             *)
(***************************************************************************)
\* as S1_Task_validate, without the rule that a title is required
S1_Task_validate_no_required(task) ==
    (IF ~Falsy(task.title) /\ task.title > MaxTitleLen
     THEN << "Title must be less than 200 characters" >>
     ELSE << >>)
    \o
    (IF task.description # NoText /\ task.description > MaxDescLen
     THEN << "Description must be less than 1000 characters" >>
     ELSE << >>)

S1_Task_validate(task) ==
    (IF Falsy(task.title) THEN << "Title is required" >>
     ELSE IF task.title > MaxTitleLen THEN << "Title must be less than 200 characters" >>
     ELSE << >>)
    \o
    (IF task.description # NoText /\ task.description > MaxDescLen
     THEN << "Description must be less than 1000 characters" >>
     ELSE << >>)

S1_Task_to_dict(task) ==
    [ id |-> task.id,
      title |-> task.title,
      description |-> task.description,
      status |-> StatusValue(task.status),
      priority |-> PriorityValue(task.priority),
      created_at |-> isoformat(task.created_at) ]

\* a record with an invalid enum value or an unparsable timestamp fails
S1_Task_from_dict_raises(d) ==
    \/ d.status \notin StatusValues
    \/ d.priority \notin PriorityValues
    \/ ~IsoParsable(d.created_at)

S1_Task_from_dict(d) ==
    [ id |-> d.id,
      title |-> d.title,
      description |-> d.description,
      status |-> TaskStatus(d.status),
      priority |-> TaskPriority(d.priority),
      created_at |-> fromisoformat(d.created_at) ]

\* partial mode skips the title-required rule only
S1_validate_task_data(d, partial) ==
    (IF ~partial /\ (~Has(d, "title") \/ Falsy(d.title)) THEN << "Title is required" >>
     ELSE IF Has(d, "title") /\ d.title # NoText /\ d.title > MaxTitleLen
     THEN << "Title must be less than 200 characters" >>
     ELSE << >>)
    \o
    (IF Has(d, "description") /\ d.description # NoText /\ d.description > MaxDescLen
     THEN << "Description must be less than 1000 characters" >> ELSE << >>)
    \o
    (IF Has(d, "status") /\ d.status \notin StatusValues
     THEN << "Invalid status. Must be: pending, in-progress, or completed" >> ELSE << >>)
    \o
    (IF Has(d, "priority") /\ d.priority \notin PriorityValues
     THEN << "Invalid priority. Must be: low, medium, or high" >> ELSE << >>)

(***************************************************************************)
(* Files, sequences                                                        *)
(***************************************************************************)
Array(recs) == [kind |-> "array", recs |-> recs]      \* a parsable JSON array
Garbage == [kind |-> "garbage", recs |-> << >>]       \* bytes json.load rejects
Truncated == [kind |-> "empty", recs |-> << >>]       \* opened for writing, nothing written yet
Absent == [kind |-> "absent", recs |-> << >>]         \* no such file

Map(F(_), s) == [i \in 1..Len(s) |-> F(s[i])]

IndexOfId(s, id) ==
    IF \E i \in 1..Len(s) : s[i].id = id
    THEN CHOOSE i \in 1..Len(s) : s[i].id = id /\ \A j \in 1..(i-1) : s[j].id # id
    ELSE 0

WithoutId(s, id) ==
    LET Keep(r) == r.id # id IN SelectSeq(s, Keep)

\* (mutant) save that always appends
Upsert_append(s, r) == Append(s, r)

\* the loop of save: replace the first record of the id in place, or append
Upsert(s, r) ==
    LET i == IndexOfId(s, r.id)
    IN IF i > 0 THEN [s EXCEPT ![i] = r] ELSE Append(s, r)

(***************************************************************************)
(* The inputs of the model: records, tasks, calls                          *)
(***************************************************************************)
LongTitle == MaxTitleLen + 1
LongDesc == MaxDescLen + 1

Raw(id, title, status, priority, created) ==
    [ id |-> id, title |-> title, description |-> NoText,
      status |-> status, priority |-> priority, created_at |-> created ]

RawA == Raw("a", 1, "pending", "low", IsoTable[1])
RawB == Raw("b", 2, "in-progress", "medium", IsoTable[2])
BadStatus == Raw("x", 3, "bogus", "low", IsoTable[1])
BadPriority == Raw("y", 4, "pending", "urgent", IsoTable[1])
BadDate == Raw("z", 5, "pending", "low", "not-a-date")

MixedFile == Array(<< RawA, BadStatus, RawB, BadPriority, BadDate >>)

InitFiles == { Array(<< >>), Garbage, MixedFile }

NoTask == [ id |-> "", title |-> NoText, description |-> NoText,
            status |-> "PENDING", priority |-> "MEDIUM", created_at |-> 0 ]

NewTask(id, title, description, status) ==
    [ id |-> id, title |-> title, description |-> description,
      status |-> status, priority |-> "MEDIUM", created_at |-> 3 ]

ValidTasks == { NewTask("a", 7, NoText, "COMPLETED"), NewTask("c", 8, MaxDescLen, "PENDING") }

InvalidTasks == { NewTask("a", 0, NoText, "PENDING"),
                  NewTask("c", LongTitle, NoText, "PENDING"),
                  NewTask("a", MaxTitleLen, LongDesc, "PENDING") }

NoPatch == [ none |-> TRUE ]

Call(kind, id, task, patch) == [kind |-> kind, id |-> id, task |-> task, patch |-> patch]
NoCall == Call("-", "", NoTask, NoPatch)

StorageCalls ==
    { Call("save", task.id, task, NoPatch) : task \in ValidTasks \cup InvalidTasks }
    \cup { Call("delete", id, NoTask, NoPatch) : id \in {"a", "x", "nope"} }
    \cup { Call("get_by_id", id, NoTask, NoPatch) : id \in {"a", "x"} }
    \cup { Call("get_all", "", NoTask, NoPatch) }

(***************************************************************************)
(* Threads: positions and results                                          *)
(***************************************************************************)
At(fn, at) == [fn |-> fn, at |-> at]
Idle == At("-", "idle")

Result(tag, val) == [tag |-> tag, val |-> val]
NoResult == Result("-", << >>)
Raised(r) == r.tag \in {"ValueError", "NotFound", "IOError"}

Now == ncalls

TypeOK ==
    /\ file.kind \in {"array", "garbage", "empty"}
    /\ tmp.kind \in {"absent", "empty", "array"}
    /\ lock \in Threads \cup {NoThread}
    /\ ncalls \in 0..(MaxCalls + MaxCallsMgr)
    /\ crashed \in BOOLEAN

InitWith(files) ==
    /\ file \in files
    /\ file0 = file
    /\ db = << >>
    /\ tmp = Absent
    /\ lock = NoThread
    /\ pc = [t \in Threads |-> Idle]
    /\ op = [t \in Threads |-> NoCall]
    /\ cur = [t \in Threads |-> NoTask]
    /\ data = [t \in Threads |-> << >>]
    /\ seen = [t \in Threads |-> Absent]
    /\ ret = [t \in Threads |-> NoResult]
    /\ ncalls = 0
    /\ crashed = FALSE
    /\ hist = [ overlap |-> FALSE, gone |-> {}, late |-> [t \in Threads |-> FALSE] ]

\* hist: a call starts (overlap: while another thread is inside a call; late: for an
\* id whose delete has already returned True); a delete returns True
Started(t, id) ==
    [ hist EXCEPT !.overlap = @ \/ \E u \in Threads \ {t} : pc[u] # Idle,
                  !.late[t] = id \in hist.gone ]

Deleted(id) == [ hist EXCEPT !.gone = @ \cup {id} ]

\* a call returns r (or raises it) to the thread's top level
Finish(t, r) ==
    /\ pc' = [pc EXCEPT ![t] = Idle]
    /\ ret' = [ret EXCEPT ![t] = r]
    /\ data' = [data EXCEPT ![t] = << >>]
    /\ cur' = [cur EXCEPT ![t] = NoTask]

\* the process dies: no thread takes another step
Crash ==
    /\ ~crashed
    /\ \E t \in Threads : pc[t] # Idle
    /\ crashed' = TRUE
    /\ UNCHANGED <<file, tmp, lock, pc, op, cur, data, seen, ret, ncalls, file0, hist, db>>

(***************************************************************************)
(* session1_model2/storage.py: JSONStorage                                 *)
(***************************************************************************)
\* _load: the parsed list, or [] when json.load rejects the content
S1_load(f) == IF f.kind = "array" THEN f.recs ELSE << >>

\* (mutant) get_all's loop without the inner try: one bad record loses the whole list
S1_get_all_tasks_no_skip(d) ==
    IF \E i \in 1..Len(d) : S1_Task_from_dict_raises(d[i])
    THEN << >>
    ELSE Map(S1_Task_from_dict, d)

\* get_all's loop: from_dict of every record, a record that raises ValueError skipped
S1_get_all_tasks(d) ==
    LET Good(r) == ~S1_Task_from_dict_raises(r)
    IN Map(S1_Task_from_dict, SelectSeq(d, Good))

\* get_by_id's loop: the first record of that id that from_dict accepts
S1_get_by_id_task(d, id) ==
    LET Hit(r) == r.id = id /\ ~S1_Task_from_dict_raises(r)
        hits == SelectSeq(d, Hit)
    IN IF hits = << >> THEN Result("None", << >>)
       ELSE Result("task", << S1_Task_from_dict(hits[1]) >>)

\* `if status_filter`: the filter was given and is not the empty string
Truthy(filters, k) == Has(filters, k) /\ filters[k] # ""

\* as TM_apply_filters, but a status filter makes it ignore the priority filter
TM_apply_filters_status_first(tasks, filters) ==
    LET ByStatus(task) == task.status = TaskStatus(filters.status_filter)
        ByPriority(task) == task.priority = TaskPriority(filters.priority_filter)
    IN IF Truthy(filters, "status_filter") THEN SelectSeq(tasks, ByStatus)
       ELSE IF Truthy(filters, "priority_filter") THEN SelectSeq(tasks, ByPriority)
       ELSE tasks

\* get_all_tasks' "Apply filters", on the list storage.get_all returned
TM_apply_filters(tasks, filters) ==
    LET ByStatus(task) == task.status = TaskStatus(filters.status_filter)
        ByPriority(task) == task.priority = TaskPriority(filters.priority_filter)
        s1 == IF Truthy(filters, "status_filter") THEN SelectSeq(tasks, ByStatus) ELSE tasks
    IN IF Truthy(filters, "priority_filter") THEN SelectSeq(s1, ByPriority) ELSE s1

\* a storage function returns r to its caller: the thread's top level, or the
\* TaskManager method that called it (update_task, create_task, get_all_tasks)
S1_return(t, fn, r) ==
    IF op[t].kind = "update_task" /\ fn = "get_by_id"
    THEN /\ pc' = [pc EXCEPT ![t] = At("update_task", "apply")]
         /\ cur' = [cur EXCEPT ![t] = IF r.tag = "task" THEN r.val[1] ELSE NoTask]
         /\ data' = [data EXCEPT ![t] = << >>]
         /\ ret' = ret
    ELSE IF op[t].kind \in {"update_task", "create_task"} /\ ~Raised(r)
    THEN Finish(t, Result("task", << cur[t] >>))
    ELSE IF op[t].kind = "get_all_tasks" /\ r.tag = "list"
    THEN Finish(t, Result("list", TM_apply_filters(r.val, op[t].patch)))
    ELSE Finish(t, r)

\* a thread starts one of `calls`
S1_call(t, calls, limit) ==
    /\ ~crashed
    /\ pc[t] = Idle
    /\ ncalls < limit
    /\ \E c \in calls :
          /\ op' = [op EXCEPT ![t] = c]
          /\ cur' = [cur EXCEPT ![t] = c.task]
          /\ pc' = [pc EXCEPT ![t] =
                CASE c.kind = "save" -> At("save", "validate")
                  [] c.kind \in {"get_by_id", "get_task", "update_task"} -> At("get_by_id", "load_acq")
                  [] c.kind \in {"delete", "delete_task"} -> At("delete", "load_acq")
                  [] c.kind \in {"get_all", "get_all_tasks"} -> At("get_all", "load_acq")]
    /\ ret' = [ret EXCEPT ![t] = NoResult]
    /\ seen' = [seen EXCEPT ![t] = Absent]
    /\ ncalls' = ncalls + 1
    /\ hist' = Started(t, op'[t].id)
    /\ UNCHANGED <<file, tmp, lock, data, crashed, file0, db>>

\* (mutant) save without the validation
S1_save_no_validate(t) ==
    /\ ~crashed
    /\ pc[t] = At("save", "validate")
    /\ pc' = [pc EXCEPT ![t] = At("save", "load_acq")]
    /\ UNCHANGED <<file, tmp, lock, op, cur, data, seen, ret, ncalls, crashed, file0, hist, db>>

\* save: task.validate() before the try block; errors raise ValueError
S1_save_validate(t) ==
    /\ ~crashed
    /\ pc[t] = At("save", "validate")
    /\ IF S1_Task_validate(cur[t]) # << >>
       THEN Finish(t, Result("ValueError", << >>))
       ELSE /\ pc' = [pc EXCEPT ![t] = At("save", "load_acq")]
            /\ UNCHANGED <<ret, data, cur>>
    /\ UNCHANGED <<file, tmp, lock, op, seen, ncalls, crashed, file0, hist, db>>

\* _load: with self._lock
S1_load_acquire(t) ==
    /\ ~crashed
    /\ pc[t].at = "load_acq"
    /\ lock = NoThread
    /\ lock' = t
    /\ pc' = [pc EXCEPT ![t] = At(pc[t].fn, "load")]
    /\ UNCHANGED <<file, tmp, op, cur, data, seen, ret, ncalls, crashed, file0, hist, db>>

\* as S1_get_all, but a file that is no JSON array is rewritten as an empty array
S1_get_all_reset(t) ==
    /\ ~crashed
    /\ pc[t] = At("get_all", "load")
    /\ lock' = NoThread
    /\ seen' = [seen EXCEPT ![t] = file]
    /\ file' = IF file.kind = "array" THEN file ELSE Array(<< >>)
    /\ S1_return(t, "get_all", Result("list", S1_get_all_tasks(S1_load(file))))
    /\ UNCHANGED <<tmp, op, ncalls, crashed, file0, hist, db>>

\* get_all: _load (read, release), then the conversion loop
S1_get_all(t) ==
    /\ ~crashed
    /\ pc[t] = At("get_all", "load")
    /\ lock' = NoThread
    /\ seen' = [seen EXCEPT ![t] = file]
    /\ S1_return(t, "get_all", Result("list", S1_get_all_tasks(S1_load(file))))
    /\ UNCHANGED <<file, tmp, op, ncalls, crashed, file0, hist, db>>

\* get_by_id: _load (read, release), then the search loop
S1_get_by_id(t) ==
    /\ ~crashed
    /\ pc[t] = At("get_by_id", "load")
    /\ lock' = NoThread
    /\ seen' = [seen EXCEPT ![t] = file]
    /\ S1_return(t, "get_by_id", S1_get_by_id_task(S1_load(file), op[t].id))
    /\ UNCHANGED <<file, tmp, op, ncalls, crashed, file0, hist, db>>

\* save: _load (read, release), then replace in place or append
S1_save_load(t) ==
    /\ ~crashed
    /\ pc[t] = At("save", "load")
    /\ lock' = NoThread
    /\ seen' = [seen EXCEPT ![t] = file]
    /\ data' = [data EXCEPT ![t] = Upsert(S1_load(file), S1_Task_to_dict(cur[t]))]
    /\ pc' = [pc EXCEPT ![t] = At("save", "save_acq")]
    /\ UNCHANGED <<file, tmp, op, cur, ret, ncalls, crashed, file0, hist, db>>

\* delete: _load (read, release), filter; _save only when a record went
S1_delete_load(t) ==
    /\ ~crashed
    /\ pc[t] = At("delete", "load")
    /\ lock' = NoThread
    /\ seen' = [seen EXCEPT ![t] = file]
    /\ LET loaded == S1_load(file)
           kept == WithoutId(loaded, op[t].id)
       IN IF Len(kept) < Len(loaded)
          THEN /\ data' = [data EXCEPT ![t] = kept]
               /\ pc' = [pc EXCEPT ![t] = At("delete", "save_acq")]
               /\ UNCHANGED <<cur, ret>>
          ELSE S1_return(t, "delete", Result("False", << >>))
    /\ UNCHANGED <<file, tmp, op, ncalls, crashed, file0, hist, db>>

\* _save: with self._lock
S1_save_acquire(t) ==
    /\ ~crashed
    /\ pc[t].at = "save_acq"
    /\ lock = NoThread
    /\ lock' = t
    /\ pc' = [pc EXCEPT ![t] = At(pc[t].fn, "save_open")]
    /\ UNCHANGED <<file, tmp, op, cur, data, seen, ret, ncalls, crashed, file0, hist, db>>

\* (mutant) _save opening the backing file itself for writing
S1_save_open_in_place(t) ==
    /\ ~crashed
    /\ pc[t].at = "save_open"
    /\ file' = Truncated
    /\ pc' = [pc EXCEPT ![t] = At(pc[t].fn, "save_dump")]
    /\ UNCHANGED <<tmp, lock, op, cur, data, seen, ret, ncalls, crashed, file0, hist, db>>

\* as S1_save_open, but the backing file itself is opened for writing and the lock
\* is let go while it is written
S1_save_open_unlocked(t) ==
    /\ ~crashed
    /\ pc[t].at = "save_open"
    /\ file' = Truncated
    /\ lock' = NoThread
    /\ pc' = [pc EXCEPT ![t] = At(pc[t].fn, "save_dump")]
    /\ UNCHANGED <<tmp, op, cur, data, seen, ret, ncalls, crashed, file0, hist, db>>

\* _save: open(temp_filepath, 'w') creates or truncates the temporary file
S1_save_open(t) ==
    /\ ~crashed
    /\ pc[t].at = "save_open"
    /\ tmp' = Truncated
    /\ pc' = [pc EXCEPT ![t] = At(pc[t].fn, "save_dump")]
    /\ UNCHANGED <<file, lock, op, cur, data, seen, ret, ncalls, crashed, file0, hist, db>>

\* _save: json.dump and close: the temporary file holds the whole list
S1_save_dump(t) ==
    /\ ~crashed
    /\ pc[t].at = "save_dump"
    /\ tmp' = Array(data[t])
    /\ pc' = [pc EXCEPT ![t] = At(pc[t].fn, "save_replace")]
    /\ UNCHANGED <<file, lock, op, cur, data, seen, ret, ncalls, crashed, file0, hist, db>>

\* as S1_save_fail, but the exception leaves the lock held
S1_save_fail_keep_lock(t) ==
    /\ ~crashed
    /\ pc[t].at = "save_dump"
    /\ tmp' = Absent
    /\ Finish(t, Result("IOError", << >>))
    /\ UNCHANGED <<file, lock, op, seen, ncalls, crashed, file0, hist, db>>

\* _save: the write fails: the temporary file is removed, the error re-raised,
\* and save/delete wrap it in IOError
S1_save_fail(t) ==
    /\ ~crashed
    /\ pc[t].at = "save_dump"
    /\ tmp' = Absent
    /\ lock' = NoThread
    /\ Finish(t, Result("IOError", << >>))
    /\ UNCHANGED <<file, op, seen, ncalls, crashed, file0, hist, db>>

\* _save: os.replace(temp_filepath, self.filepath), release, return
S1_save_replace(t) ==
    /\ ~crashed
    /\ pc[t].at = "save_replace"
    /\ file' = tmp
    /\ tmp' = Absent
    /\ lock' = NoThread
    /\ S1_return(t, pc[t].fn,
                 IF pc[t].fn = "delete" THEN Result("True", << >>) ELSE Result("None", << >>))
    /\ hist' = IF pc[t].fn = "delete" THEN Deleted(op[t].id) ELSE hist
    /\ UNCHANGED <<op, seen, ncalls, crashed, file0, db>>

S1_storage_step(t) ==
    \/ S1_save_validate(t)
    \/ S1_load_acquire(t)
    \/ S1_get_all(t)
    \/ S1_get_by_id(t)
    \/ S1_save_load(t)
    \/ S1_delete_load(t)
    \/ S1_save_acquire(t)
    \/ S1_save_open(t)
    \/ S1_save_dump(t)
    \/ S1_save_fail(t)
    \/ S1_save_replace(t)

Init == InitWith(InitFiles)

Next ==
    \/ \E t \in Threads : S1_call(t, StorageCalls, MaxCalls)
    \/ \E t \in Threads : S1_storage_step(t)
    \/ Crash

Spec == Init /\ [][Next]_vars

(***************************************************************************)
(* session1_model2/task_manager.py: TaskManager over JSONStorage           *)
(*   get_task = storage.get_by_id, delete_task = storage.delete,           *)
(*   get_all_tasks (no filter) = storage.get_all,                          *)
(*   update_task = storage.get_by_id, the patch, storage.save              *)
(***************************************************************************)
\* as TM_apply_updates, but a priority the patch does not name falls back to medium
TM_apply_updates_defaults(task, updates) ==
    [ id |-> task.id,
      title |-> IF Has(updates, "title") THEN updates.title ELSE task.title,
      description |-> IF Has(updates, "description") THEN updates.description
                      ELSE task.description,
      status |-> IF Has(updates, "status") THEN TaskStatus(updates.status) ELSE task.status,
      priority |-> IF Has(updates, "priority") THEN TaskPriority(updates.priority)
                   ELSE "MEDIUM",
      created_at |-> task.created_at ]

\* as TM_apply_updates, but an 'id' key of the patch is applied too
TM_apply_updates_with_id(task, updates) ==
    [ id |-> IF Has(updates, "id") THEN updates.id ELSE task.id,
      title |-> IF Has(updates, "title") THEN updates.title ELSE task.title,
      description |-> IF Has(updates, "description") THEN updates.description
                      ELSE task.description,
      status |-> IF Has(updates, "status") THEN TaskStatus(updates.status) ELSE task.status,
      priority |-> IF Has(updates, "priority") THEN TaskPriority(updates.priority)
                   ELSE task.priority,
      created_at |-> task.created_at ]

\* update_task's "Apply updates": only the fields present in the patch
TM_apply_updates(task, updates) ==
    [ id |-> task.id,
      title |-> IF Has(updates, "title") THEN updates.title ELSE task.title,
      description |-> IF Has(updates, "description") THEN updates.description
                      ELSE task.description,
      status |-> IF Has(updates, "status") THEN TaskStatus(updates.status) ELSE task.status,
      priority |-> IF Has(updates, "priority") THEN TaskPriority(updates.priority)
                   ELSE task.priority,
      created_at |-> task.created_at ]

\* the keys of a patch whose values break no rule
ValidPart(updates) ==
    LET Ok(k) == CASE k = "title" -> ~Falsy(updates.title) /\ updates.title <= MaxTitleLen
                   [] k = "description" ->
                         updates.description = NoText \/ updates.description <= MaxDescLen
                   [] k = "status" -> updates.status \in StatusValues
                   [] k = "priority" -> updates.priority \in PriorityValues
                   [] OTHER -> TRUE
    IN [k \in {x \in DOMAIN updates : Ok(x)} |-> updates[k]]

\* as TM_update_apply, but the patch is validated before the task is looked for
TM_update_apply_validate_first(t) ==
    /\ ~crashed
    /\ pc[t] = At("update_task", "apply")
    /\ IF S1_validate_task_data(op[t].patch, TRUE) # << >>
       THEN Finish(t, Result("ValueError", << >>))
       ELSE IF cur[t] = NoTask
       THEN Finish(t, Result("NotFound", << >>))
       ELSE IF S1_Task_validate(TM_apply_updates(cur[t], op[t].patch)) # << >>
       THEN Finish(t, Result("ValueError", << >>))
       ELSE /\ cur' = [cur EXCEPT ![t] = TM_apply_updates(cur[t], op[t].patch)]
            /\ pc' = [pc EXCEPT ![t] = At("save", "validate")]
            /\ UNCHANGED <<ret, data>>
    /\ UNCHANGED <<file, tmp, lock, op, seen, ncalls, crashed, file0, hist, db>>

\* as TM_update_apply, but the fields of the patch that are valid are saved and
\* the others dropped
TM_update_apply_valid_part(t) ==
    /\ ~crashed
    /\ pc[t] = At("update_task", "apply")
    /\ IF cur[t] = NoTask
       THEN Finish(t, Result("NotFound", << >>))
       ELSE /\ cur' = [cur EXCEPT ![t] = TM_apply_updates(cur[t], ValidPart(op[t].patch))]
            /\ pc' = [pc EXCEPT ![t] = At("save", "validate")]
            /\ UNCHANGED <<ret, data>>
    /\ UNCHANGED <<file, tmp, lock, op, seen, ncalls, crashed, file0, hist, db>>

\* update_task between storage.get_by_id and storage.save
TM_update_apply(t) ==
    /\ ~crashed
    /\ pc[t] = At("update_task", "apply")
    /\ IF cur[t] = NoTask
       THEN Finish(t, Result("NotFound", << >>))        \* ValueError("Task not found: ...")
       ELSE IF S1_validate_task_data(op[t].patch, TRUE) # << >>
       THEN Finish(t, Result("ValueError", << >>))
       ELSE IF S1_Task_validate(TM_apply_updates(cur[t], op[t].patch)) # << >>
       THEN Finish(t, Result("ValueError", << >>))
       ELSE /\ cur' = [cur EXCEPT ![t] = TM_apply_updates(cur[t], op[t].patch)]
            /\ pc' = [pc EXCEPT ![t] = At("save", "validate")]
            /\ UNCHANGED <<ret, data>>
    /\ UNCHANGED <<file, tmp, lock, op, seen, ncalls, crashed, file0, hist, db>>

\* uuid.uuid4(): an id no earlier call has produced, one per call of the run
NewIds == << "n1", "n2", "n3", "n4", "n5", "n6" >>

\* (mutant) create_task that returns the new task without storage.save
TM_create_task_no_save(t) ==
    /\ ~crashed
    /\ pc[t] = At("create_task", "validate")
    /\ LET task_data == op[t].patch
           errors == S1_validate_task_data(task_data, FALSE)
       IN IF errors # << >>
          THEN Finish(t, Result("ValueError", errors))
          ELSE Finish(t, Result("task",
                  << [ id |-> NewIds[ncalls],
                       title |-> task_data.title,
                       description |-> task_data.description,
                       status |-> TaskStatus(task_data.status),
                       priority |-> TaskPriority(task_data.priority),
                       created_at |-> Now ] >>))
    /\ UNCHANGED <<file, tmp, lock, op, seen, ncalls, crashed, file0, hist, db>>

\* (mutant) create_task that checks the title only and falls back to the default
\* status and priority
TM_create_task_title_only(t) ==
    /\ ~crashed
    /\ pc[t] = At("create_task", "validate")
    /\ LET task_data == op[t].patch
       IN IF Falsy(task_data.title)
          THEN Finish(t, Result("ValueError", << "Title is required" >>))
          ELSE /\ cur' = [cur EXCEPT ![t] =
                         [ id |-> NewIds[ncalls],
                           title |-> task_data.title,
                           description |-> task_data.description,
                           status |-> IF task_data.status \in StatusValues
                                      THEN TaskStatus(task_data.status) ELSE "PENDING",
                           priority |-> IF task_data.priority \in PriorityValues
                                        THEN TaskPriority(task_data.priority) ELSE "MEDIUM",
                           created_at |-> Now ]]
               /\ pc' = [pc EXCEPT ![t] = At("save", "validate")]
               /\ UNCHANGED <<ret, data>>
    /\ UNCHANGED <<file, tmp, lock, op, seen, ncalls, crashed, file0, hist, db>>

\* create_task: validate_task_data(task_data), the enums, Task(...); then storage.save
TM_create_task(t) ==
    /\ ~crashed
    /\ pc[t] = At("create_task", "validate")
    /\ LET task_data == op[t].patch
           errors == S1_validate_task_data(task_data, FALSE)
       IN IF errors # << >>
          THEN Finish(t, Result("ValueError", errors))
          ELSE /\ cur' = [cur EXCEPT ![t] =
                         [ id |-> NewIds[ncalls],
                           title |-> task_data.title,
                           description |-> task_data.description,
                           status |-> TaskStatus(task_data.status),
                           priority |-> TaskPriority(task_data.priority),
                           created_at |-> Now ]]
               /\ pc' = [pc EXCEPT ![t] = At("save", "validate")]
               /\ UNCHANGED <<ret, data>>
    /\ UNCHANGED <<file, tmp, lock, op, seen, ncalls, crashed, file0, hist, db>>

\* (mutant) get_all_tasks testing `is not None` where the code tests truthiness
TM_get_all_tasks_check_not_none(t) ==
    /\ ~crashed
    /\ pc[t] = At("get_all_tasks", "check")
    /\ LET filters == op[t].patch
       IN IF Has(filters, "status_filter") /\ filters.status_filter \notin StatusValues
          THEN Finish(t, Result("ValueError", << "Invalid status filter" >>))
          ELSE IF Has(filters, "priority_filter")
                  /\ filters.priority_filter \notin PriorityValues
          THEN Finish(t, Result("ValueError", << "Invalid priority filter" >>))
          ELSE /\ pc' = [pc EXCEPT ![t] = At("get_all", "load_acq")]
               /\ UNCHANGED <<ret, data, cur>>
    /\ UNCHANGED <<file, tmp, lock, op, seen, ncalls, crashed, file0, hist, db>>

\* get_all_tasks: "Validate filter values", before storage.get_all
TM_get_all_tasks_check(t) ==
    /\ ~crashed
    /\ pc[t] = At("get_all_tasks", "check")
    /\ LET filters == op[t].patch
       IN IF Truthy(filters, "status_filter") /\ filters.status_filter \notin StatusValues
          THEN Finish(t, Result("ValueError", << "Invalid status filter" >>))
          ELSE IF Truthy(filters, "priority_filter")
                  /\ filters.priority_filter \notin PriorityValues
          THEN Finish(t, Result("ValueError", << "Invalid priority filter" >>))
          ELSE /\ pc' = [pc EXCEPT ![t] = At("get_all", "load_acq")]
               /\ UNCHANGED <<ret, data, cur>>
    /\ UNCHANGED <<file, tmp, lock, op, seen, ncalls, crashed, file0, hist, db>>

StatusPatch == [status |-> "completed"]
PriorityPatch == [priority |-> "high"]
EmptyTitlePatch == [title |-> 0]

ManagerCalls ==
    { Call("update_task", "a", NoTask, p) : p \in {StatusPatch, PriorityPatch, EmptyTitlePatch} }
    \cup { Call("update_task", "nope", NoTask, StatusPatch),
           Call("delete_task", "a", NoTask, NoPatch),
           Call("get_task", "a", NoTask, NoPatch),
           Call("get_all_tasks", "", NoTask, NoPatch) }

InitMgr == InitWith({ Array(<< RawA, RawB >>) })

NextMgr ==
    \/ \E t \in Threads : S1_call(t, ManagerCalls, MaxCallsMgr)
    \/ \E t \in Threads : S1_storage_step(t)
    \/ \E t \in Threads : TM_update_apply(t)

SpecMgr == InitMgr /\ [][NextMgr]_vars

(***************************************************************************)
(* session4_model4/storage.py: JSONStorage                                 *)
(*   every public method runs under self._lock from its first line         *)
(***************************************************************************)
\* _load's try block raises: json.load rejects the content, or from_dict a record
S4_load_fails(f) ==
    \/ f.kind # "array"
    \/ \E i \in 1..Len(f.recs) : Task_from_dict_raises(f.recs[i])

\* _load's result when nothing raises
S4_load_tasks(f, now) ==
    LET Conv(r) == Task_from_dict(r, now) IN Map(Conv, f.recs)

S4_get_by_id_task(tasks, id) ==
    LET i == IndexOfId(tasks, id)
    IN IF i > 0 THEN Result("task", << tasks[i] >>) ELSE Result("None", << >>)

S4_call(t, calls, limit) ==
    /\ ~crashed
    /\ pc[t] = Idle
    /\ ncalls < limit
    /\ \E c \in calls :
          /\ op' = [op EXCEPT ![t] = c]
          /\ cur' = [cur EXCEPT ![t] = c.task]
          /\ pc' = [pc EXCEPT ![t] = At(c.kind, "acquire")]
    /\ ret' = [ret EXCEPT ![t] = NoResult]
    /\ seen' = [seen EXCEPT ![t] = Absent]
    /\ ncalls' = ncalls + 1
    /\ hist' = Started(t, op'[t].id)
    /\ UNCHANGED <<file, tmp, lock, data, crashed, file0, db>>

\* (mutant) a method body that does not take the lock
S4_acquire_unlocked(t) ==
    /\ ~crashed
    /\ pc[t].at = "acquire"
    /\ lock' = t
    /\ pc' = [pc EXCEPT ![t] = At(pc[t].fn, "load")]
    /\ UNCHANGED <<file, tmp, op, cur, data, seen, ret, ncalls, crashed, file0, hist, db>>

\* with self._lock
S4_acquire(t) ==
    /\ ~crashed
    /\ pc[t].at = "acquire"
    /\ lock = NoThread
    /\ lock' = t
    /\ pc' = [pc EXCEPT ![t] = At(pc[t].fn, "load")]
    /\ UNCHANGED <<file, tmp, op, cur, data, seen, ret, ncalls, crashed, file0, hist, db>>

\* the method's body after _load returned `tasks`
S4_after_load(t, tasks) ==
    CASE pc[t].fn = "get_all" ->
            /\ lock' = NoThread
            /\ Finish(t, Result("list", tasks))
      [] pc[t].fn = "get_by_id" ->
            /\ lock' = NoThread
            /\ Finish(t, S4_get_by_id_task(tasks, op[t].id))
      [] pc[t].fn = "save" ->
            /\ data' = [data EXCEPT ![t] = Upsert(tasks, cur[t])]
            /\ pc' = [pc EXCEPT ![t] = At("save", "save_open")]
            /\ UNCHANGED <<lock, cur, ret>>
      [] pc[t].fn = "delete" ->
            IF Len(WithoutId(tasks, op[t].id)) < Len(tasks)
            THEN /\ data' = [data EXCEPT ![t] = WithoutId(tasks, op[t].id)]
                 /\ pc' = [pc EXCEPT ![t] = At("delete", "save_open")]
                 /\ UNCHANGED <<lock, cur, ret>>
            ELSE /\ lock' = NoThread
                 /\ Finish(t, Result("False", << >>))

\* _load: the file parses and every record converts
S4_load(t) ==
    /\ ~crashed
    /\ pc[t].at = "load"
    /\ ~S4_load_fails(file)
    /\ seen' = [seen EXCEPT ![t] = file]
    /\ S4_after_load(t, S4_load_tasks(file, Now))
    /\ UNCHANGED <<file, tmp, op, ncalls, crashed, file0, hist, db>>

\* _load's except branch: open(self.filepath, 'w') truncates the backing file
S4_load_truncate(t) ==
    /\ ~crashed
    /\ pc[t].at = "load"
    /\ S4_load_fails(file)
    /\ seen' = [seen EXCEPT ![t] = file]
    /\ file' = Truncated
    /\ pc' = [pc EXCEPT ![t] = At(pc[t].fn, "load_reset")]
    /\ UNCHANGED <<tmp, lock, op, cur, data, ret, ncalls, crashed, file0, hist, db>>

\* (mutant) _load's except branch resets the file and lets the error go on
S4_load_reset_raises(t) ==
    /\ ~crashed
    /\ pc[t].at = "load_reset"
    /\ file' = Array(<< >>)
    /\ lock' = NoThread
    /\ Finish(t, Result("IOError", << >>))
    /\ UNCHANGED <<tmp, op, seen, ncalls, crashed, file0, hist, db>>

\* as S4_load_reset, but the file opened for writing is closed with nothing dumped
S4_load_reset_no_dump(t) ==
    /\ ~crashed
    /\ pc[t].at = "load_reset"
    /\ S4_after_load(t, << >>)
    /\ UNCHANGED <<file, tmp, op, seen, ncalls, crashed, file0, hist, db>>

\* _load's except branch: json.dump([], f), close, return []
S4_load_reset(t) ==
    /\ ~crashed
    /\ pc[t].at = "load_reset"
    /\ file' = Array(<< >>)
    /\ S4_after_load(t, << >>)
    /\ UNCHANGED <<tmp, op, seen, ncalls, crashed, file0, hist, db>>

\* _save: open(temp_filepath, 'w')
S4_save_open(t) ==
    /\ ~crashed
    /\ pc[t].at = "save_open"
    /\ tmp' = Truncated
    /\ pc' = [pc EXCEPT ![t] = At(pc[t].fn, "save_dump")]
    /\ UNCHANGED <<file, lock, op, cur, data, seen, ret, ncalls, crashed, file0, hist, db>>

\* _save: json.dump of the to_dict of every task, close
S4_save_dump(t) ==
    /\ ~crashed
    /\ pc[t].at = "save_dump"
    /\ tmp' = Array(Map(Task_to_dict, data[t]))
    /\ pc' = [pc EXCEPT ![t] = At(pc[t].fn, "save_replace")]
    /\ UNCHANGED <<file, lock, op, cur, data, seen, ret, ncalls, crashed, file0, hist, db>>

\* _save: the write fails: the error leaves through the with blocks (the lock is
\* released, the temporary file stays as it is)
S4_save_fail(t) ==
    /\ ~crashed
    /\ pc[t].at = "save_dump"
    /\ lock' = NoThread
    /\ Finish(t, Result("IOError", << >>))
    /\ UNCHANGED <<file, tmp, op, seen, ncalls, crashed, file0, hist, db>>

\* _save: os.replace(temp_filepath, self.filepath); the method returns
S4_save_replace(t) ==
    /\ ~crashed
    /\ pc[t].at = "save_replace"
    /\ file' = tmp
    /\ tmp' = Absent
    /\ lock' = NoThread
    /\ Finish(t, IF pc[t].fn = "delete" THEN Result("True", << >>) ELSE Result("None", << >>))
    /\ hist' = IF pc[t].fn = "delete" THEN Deleted(op[t].id) ELSE hist
    /\ UNCHANGED <<op, seen, ncalls, crashed, file0, db>>

Init4 == InitWith(InitFiles \cup { Array(<< RawA, RawB >>) })

Next4 ==
    \/ \E t \in Threads : S4_call(t, StorageCalls, MaxCalls)
    \/ \E t \in Threads : S4_acquire(t)
    \/ \E t \in Threads : S4_load(t)
    \/ \E t \in Threads : S4_load_truncate(t)
    \/ \E t \in Threads : S4_load_reset(t)
    \/ \E t \in Threads : S4_save_open(t)
    \/ \E t \in Threads : S4_save_dump(t)
    \/ \E t \in Threads : S4_save_fail(t)
    \/ \E t \in Threads : S4_save_replace(t)
    \/ Crash

Spec4 == Init4 /\ [][Next4]_vars

(***************************************************************************)
(* One caller: a JSONStorage is constructed on a path, then its methods    *)
(* (and, for session1_model2, TaskManager's) are called one after another. *)
(*   hist.variant: which JSONStorage; hist.prev: the call before this one  *)
(*   and its result; hist.before: the file when this call started;         *)
(*   hist.creates: the number of calls so far when all of them were        *)
(*   create_task calls that returned a task, else -1                       *)
(***************************************************************************)
MaxSeqCalls == 3
MaxSeqCallsMgr == 3

Caller == "t1"
Variants == {"session1_model2", "session4_model4"}

\* (mutant) _ensure_file_exists without the os.path.exists test
JS_ensure_file_always(t) ==
    /\ pc[t] = At("__init__", "ensure")
    /\ file' = Truncated
    /\ pc' = [pc EXCEPT ![t] = At("__init__", "dump")]
    /\ UNCHANGED <<tmp, lock, op, cur, data, seen, ret, ncalls, crashed, file0, hist, db>>

\* _ensure_file_exists: os.path.exists, and open(self.filepath, 'w') when it is false
JS_ensure_file_exists(t) ==
    /\ pc[t] = At("__init__", "ensure")
    /\ IF file.kind = "absent"
       THEN /\ file' = Truncated
            /\ pc' = [pc EXCEPT ![t] = At("__init__", "dump")]
       ELSE /\ file' = file
            /\ pc' = [pc EXCEPT ![t] = Idle]
    /\ UNCHANGED <<tmp, lock, op, cur, data, seen, ret, ncalls, crashed, file0, hist, db>>

\* _ensure_file_exists: json.dump([], f), close; the constructor returns
JS_ensure_dump(t) ==
    /\ pc[t] = At("__init__", "dump")
    /\ file' = Array(<< >>)
    /\ pc' = [pc EXCEPT ![t] = Idle]
    /\ UNCHANGED <<tmp, lock, op, cur, data, seen, ret, ncalls, crashed, file0, hist, db>>

\* where call c enters the code of the storage variant in use
Seq_entry(c) ==
    IF hist.variant = "session4_model4" THEN At(c.kind, "acquire")
    ELSE CASE c.kind = "save" -> At("save", "validate")
           [] c.kind \in {"get_by_id", "get_task", "update_task"} -> At("get_by_id", "load_acq")
           [] c.kind \in {"delete", "delete_task"} -> At("delete", "load_acq")
           [] c.kind = "get_all" -> At("get_all", "load_acq")
           [] c.kind = "get_all_tasks" -> At("get_all_tasks", "check")
           [] c.kind = "create_task" -> At("create_task", "validate")

\* the caller makes its next call, one of `calls`
Seq_call(t, calls, limit) ==
    /\ pc[t] = Idle
    /\ ncalls < limit
    /\ \E c \in calls :
          /\ op' = [op EXCEPT ![t] = c]
          /\ cur' = [cur EXCEPT ![t] = c.task]
          /\ pc' = [pc EXCEPT ![t] = Seq_entry(c)]
          /\ hist' = [ Started(t, c.id) EXCEPT
                          !.prev = [op |-> op[t], ret |-> ret[t]],
                          !.before = file,
                          !.creates = IF ncalls = 0 THEN 0
                                      ELSE IF /\ hist.creates >= 0
                                              /\ op[t].kind = "create_task"
                                              /\ ret[t].tag = "task"
                                      THEN hist.creates + 1
                                      ELSE 0 - 1 ]
    /\ ret' = [ret EXCEPT ![t] = NoResult]
    /\ seen' = [seen EXCEPT ![t] = Absent]
    /\ ncalls' = ncalls + 1
    /\ UNCHANGED <<file, tmp, lock, data, crashed, file0, db>>

InitSeq(files, variants) ==
    /\ file \in files
    /\ file0 = file
    /\ db = << >>
    /\ tmp = Absent
    /\ lock = NoThread
    /\ pc = [t \in Threads |-> IF t = Caller THEN At("__init__", "ensure") ELSE Idle]
    /\ op = [t \in Threads |-> NoCall]
    /\ cur = [t \in Threads |-> NoTask]
    /\ data = [t \in Threads |-> << >>]
    /\ seen = [t \in Threads |-> Absent]
    /\ ret = [t \in Threads |-> NoResult]
    /\ ncalls = 0
    /\ crashed = FALSE
    /\ \E v \in variants :
          hist = [ overlap |-> FALSE, gone |-> {}, late |-> [t \in Threads |-> FALSE],
                   variant |-> v, prev |-> [op |-> NoCall, ret |-> NoResult],
                   before |-> file, creates |-> 0 ]

SeqStorageCalls ==
    { Call("save", task.id, task, NoPatch) :
         task \in ValidTasks \cup { NewTask("a", 0, NoText, "PENDING") } }
    \cup { Call("delete", id, NoTask, NoPatch) : id \in {"a", "x", "nope"} }
    \cup { Call("get_by_id", id, NoTask, NoPatch) : id \in {"a", "c", "x"} }
    \cup { Call("get_all", "", NoTask, NoPatch) }

InitSeqStorage ==
    InitSeq({ Absent, Array(<< >>), Garbage, MixedFile, Array(<< RawA, RawB >>) }, Variants)

NextSeqStorage ==
    \/ JS_ensure_file_exists(Caller)
    \/ JS_ensure_dump(Caller)
    \/ Seq_call(Caller, SeqStorageCalls, MaxSeqCalls)
    \/ hist.variant = "session1_model2" /\ S1_storage_step(Caller)
    \/ hist.variant = "session4_model4" /\ S4_acquire(Caller)
    \/ hist.variant = "session4_model4" /\ S4_load(Caller)
    \/ hist.variant = "session4_model4" /\ S4_load_truncate(Caller)
    \/ hist.variant = "session4_model4" /\ S4_load_reset(Caller)
    \/ hist.variant = "session4_model4" /\ S4_save_open(Caller)
    \/ hist.variant = "session4_model4" /\ S4_save_dump(Caller)
    \/ hist.variant = "session4_model4" /\ S4_save_fail(Caller)
    \/ hist.variant = "session4_model4" /\ S4_save_replace(Caller)

SpecSeq == InitSeqStorage /\ [][NextSeqStorage]_vars

\* create_task's task_data
TaskData(title, description, status, priority) ==
    [title |-> title, description |-> description, status |-> status, priority |-> priority]

TitleOnly == TaskData(5, NoText, "pending", "medium")

CreateInputs ==
    { TitleOnly,
      TaskData(MaxTitleLen, MaxDescLen, "completed", "high"),
      TaskData(NoText, NoText, "pending", "medium"),
      TaskData(0, LongDesc, "pending", "medium"),
      TaskData(LongTitle, NoText, "pending", "medium"),
      TaskData(5, LongDesc, "pending", "medium"),
      TaskData(5, NoText, "bogus", "medium"),
      TaskData(5, NoText, "pending", "urgent"),
      TaskData(5, NoText, "bogus", "urgent") }

\* get_all_tasks' filters; a filter that is None has no key
FilterInputs ==
    { NoPatch,
      [status_filter |-> "pending"], [status_filter |-> "bogus"], [status_filter |-> ""],
      [priority_filter |-> "low"], [priority_filter |-> "urgent"], [priority_filter |-> ""],
      [status_filter |-> "pending", priority_filter |-> "low"],
      [status_filter |-> "pending", priority_filter |-> "medium"] }

\* the calls the caller may make now: get_task also with the id the call before returned
SeqManagerCalls ==
    { Call("create_task", "", NoTask, d) : d \in CreateInputs }
    \cup { Call("get_all_tasks", "", NoTask, f) : f \in FilterInputs }
    \cup { Call("get_task", id, NoTask, NoPatch) :
              id \in {"a"} \cup (IF ret[Caller].tag = "task" THEN {ret[Caller].val[1].id} ELSE {}) }
    \cup { Call("update_task", "a", NoTask, StatusPatch),
           Call("delete_task", "a", NoTask, NoPatch) }

InitSeqMgr == InitSeq({ Absent, Array(<< RawA, RawB >>) }, {"session1_model2"})

NextSeqMgr ==
    \/ JS_ensure_file_exists(Caller)
    \/ JS_ensure_dump(Caller)
    \/ Seq_call(Caller, SeqManagerCalls, MaxSeqCallsMgr)
    \/ S1_storage_step(Caller)
    \/ TM_update_apply(Caller)
    \/ TM_create_task(Caller)
    \/ TM_get_all_tasks_check(Caller)

SpecSeqMgr == InitSeqMgr /\ [][NextSeqMgr]_vars

(***************************************************************************)
(* One caller of the session1_model2 TaskManager whose calls are mostly    *)
(* update_task: valid and invalid patches, on stored and on missing ids    *)
(***************************************************************************)
MaxSeqCallsUpd == 3

TitlePatch == [title |-> 9]
DescPriorityPatch == [description |-> 7, priority |-> "high"]
IdPatch == [id |-> "zz", created_at |-> IsoTable[6], title |-> 9]
ValidPatches == { StatusPatch, TitlePatch, DescPriorityPatch, IdPatch }

BadStatusPatch == [status |-> "bogus", title |-> 9]
BadPriorityPatch == [priority |-> "urgent"]
LongTitlePatch == [title |-> LongTitle, status |-> "completed"]
LongDescPatch == [description |-> LongDesc, priority |-> "high"]
InvalidPatches ==
    { BadStatusPatch, BadPriorityPatch, EmptyTitlePatch, LongTitlePatch, LongDescPatch }

\* the id the call before returned, if it returned a task
LastId == IF ret[Caller].tag = "task" THEN {ret[Caller].val[1].id} ELSE {}

SeqUpdateCalls ==
    { Call("create_task", "", NoTask, d) :
         d \in { TitleOnly, TaskData(LongTitle, 7, "completed", "high"),
                 TaskData(200, 1000, "in-progress", "low") } }
    \cup { Call("update_task", id, NoTask, p) :
              id \in {"a"} \cup LastId, p \in ValidPatches \cup InvalidPatches }
    \cup { Call("update_task", "nope", NoTask, p) : p \in {StatusPatch, BadStatusPatch} }
    \cup { Call("delete_task", id, NoTask, NoPatch) : id \in {"a"} \cup LastId }
    \cup { Call("get_task", "a", NoTask, NoPatch),
           Call("get_all_tasks", "", NoTask, NoPatch) }

InitSeqUpd == InitSeq({ Absent, Array(<< RawA, RawB >>) }, {"session1_model2"})

NextSeqUpd ==
    \/ JS_ensure_file_exists(Caller)
    \/ JS_ensure_dump(Caller)
    \/ Seq_call(Caller, SeqUpdateCalls, MaxSeqCallsUpd)
    \/ S1_storage_step(Caller)
    \/ TM_update_apply(Caller)
    \/ TM_create_task(Caller)
    \/ TM_get_all_tasks_check(Caller)

SpecSeqUpd == InitSeqUpd /\ [][NextSeqUpd]_vars

(***************************************************************************)
(* session1_model1/app.py: validate_task_data                              *)
(***************************************************************************)
\* validate_task_data: no rule for the description; partial skips both title rules
Api_validate_task_data(d, partial) ==
    (IF partial THEN << >>
     ELSE IF ~Has(d, "title") \/ Falsy(d.title) THEN << "Title is required" >>
     ELSE IF d.title > MaxTitleLen THEN << "Title must be less than 200 characters" >>
     ELSE << >>)
    \o
    (IF Has(d, "status") /\ d.status \notin StatusValues
     THEN << "Invalid status. Must be: pending, in-progress, or completed" >> ELSE << >>)
    \o
    (IF Has(d, "priority") /\ d.priority \notin PriorityValues
     THEN << "Invalid priority. Must be: low, medium, or high" >> ELSE << >>)

(***************************************************************************)
(* The functions of session4_model4/models.py and validate_task_data of    *)
(* session1_model1/app.py, called one after another on inputs of small sets *)
(***************************************************************************)
MaxModelCalls == 2

TaskOf(title, description, status, priority, created) ==
    [ id |-> "a", title |-> title, description |-> description,
      status |-> status, priority |-> priority, created_at |-> created ]

TaskInputs ==
    { TaskOf(5, 7, s, p, 1) : s \in {"PENDING", "IN_PROGRESS", "COMPLETED"},
                              p \in {"LOW", "MEDIUM", "HIGH"} }
    \cup { TaskOf(MaxTitleLen, NoText, "PENDING", "MEDIUM", 6),
           TaskOf(1, MaxDescLen, "COMPLETED", "HIGH", 3),
           TaskOf(0, NoText, "PENDING", "LOW", 2),
           TaskOf(MaxTitleLen, MaxDescLen, "PENDING", "LOW", 2),
           TaskOf(LongTitle, 7, "PENDING", "LOW", 2),
           TaskOf(5, LongDesc, "PENDING", "LOW", 2) }

DictInputs ==
    { RawA, [RawA EXCEPT !.status = ""], [RawA EXCEPT !.priority = ""],
      [RawA EXCEPT !.created_at = ""], BadStatus, BadPriority, BadDate }

PatchInputs ==
    { TitlePatch, StatusPatch, [title |-> LongTitle], LongTitlePatch, EmptyTitlePatch,
      BadStatusPatch, LongDescPatch,
      [title |-> 1], [title |-> MaxTitleLen, description |-> MaxDescLen],
      [title |-> 5, description |-> LongDesc] }

ModelCall(kind, task, d, partial) ==
    [kind |-> kind, id |-> "", task |-> task, patch |-> d, partial |-> partial]

\* from_dict also of the dictionary the to_dict before returned
ModelCalls ==
    { ModelCall(k, task, NoPatch, FALSE) : k \in {"to_dict", "validate"}, task \in TaskInputs }
    \cup { ModelCall("from_dict", NoTask, d, FALSE) :
              d \in DictInputs
                    \cup (IF ret[Caller].tag = "dict" THEN {ret[Caller].val[1]} ELSE {}) }
    \cup { ModelCall(k, NoTask, d, partial) :
              k \in {"validate_task_data", "api_validate_task_data"},
              d \in PatchInputs, partial \in BOOLEAN }

M_call(t) ==
    /\ pc[t] = Idle
    /\ ncalls < MaxModelCalls
    /\ \E c \in ModelCalls :
          /\ op' = [op EXCEPT ![t] = c]
          /\ pc' = [pc EXCEPT ![t] = At(c.kind, "call")]
    /\ hist' = [hist EXCEPT !.prev = [op |-> op[t], ret |-> ret[t]]]
    /\ ret' = [ret EXCEPT ![t] = NoResult]
    /\ ncalls' = ncalls + 1
    /\ UNCHANGED <<file, tmp, lock, cur, data, seen, crashed, file0, db>>

\* as M_to_dict, but the enums are written by their names
M_to_dict_names(t) ==
    /\ pc[t] = At("to_dict", "call")
    /\ Finish(t, Result("dict", << [ Task_to_dict(op[t].task) EXCEPT
                                        !.status = op[t].task.status,
                                        !.priority = op[t].task.priority ] >>))
    /\ UNCHANGED <<file, tmp, lock, op, seen, ncalls, crashed, file0, hist, db>>

M_to_dict(t) ==
    /\ pc[t] = At("to_dict", "call")
    /\ Finish(t, Result("dict", << Task_to_dict(op[t].task) >>))
    /\ UNCHANGED <<file, tmp, lock, op, seen, ncalls, crashed, file0, hist, db>>

M_validate(t) ==
    /\ pc[t] = At("validate", "call")
    /\ Finish(t, Result("errors", Task_validate(op[t].task)))
    /\ UNCHANGED <<file, tmp, lock, op, seen, ncalls, crashed, file0, hist, db>>

M_from_dict(t) ==
    /\ pc[t] = At("from_dict", "call")
    /\ IF Task_from_dict_raises(op[t].patch)
       THEN Finish(t, Result("ValueError", << >>))
       ELSE Finish(t, Result("task", << Task_from_dict(op[t].patch, Now) >>))
    /\ UNCHANGED <<file, tmp, lock, op, seen, ncalls, crashed, file0, hist, db>>

M_validate_task_data(t) ==
    /\ pc[t] = At("validate_task_data", "call")
    /\ Finish(t, Result("errors", validate_task_data(op[t].patch, op[t].partial)))
    /\ UNCHANGED <<file, tmp, lock, op, seen, ncalls, crashed, file0, hist, db>>

M_api_validate_task_data(t) ==
    /\ pc[t] = At("api_validate_task_data", "call")
    /\ Finish(t, Result("errors", Api_validate_task_data(op[t].patch, op[t].partial)))
    /\ UNCHANGED <<file, tmp, lock, op, seen, ncalls, crashed, file0, hist, db>>

InitModels ==
    /\ file = Absent
    /\ file0 = file
    /\ db = << >>
    /\ tmp = Absent
    /\ lock = NoThread
    /\ pc = [t \in Threads |-> Idle]
    /\ op = [t \in Threads |-> NoCall]
    /\ cur = [t \in Threads |-> NoTask]
    /\ data = [t \in Threads |-> << >>]
    /\ seen = [t \in Threads |-> Absent]
    /\ ret = [t \in Threads |-> NoResult]
    /\ ncalls = 0
    /\ crashed = FALSE
    /\ hist = [ overlap |-> FALSE, gone |-> {}, late |-> [t \in Threads |-> FALSE],
                variant |-> "session4_model4", prev |-> [op |-> NoCall, ret |-> NoResult],
                before |-> file, creates |-> 0 ]

NextModels ==
    \/ M_call(Caller)
    \/ M_to_dict(Caller)
    \/ M_validate(Caller)
    \/ M_from_dict(Caller)
    \/ M_validate_task_data(Caller)
    \/ M_api_validate_task_data(Caller)

SpecModels == InitModels /\ [][NextModels]_vars

(***************************************************************************)
(* session1_model1/app.py: the routes POST, PUT and DELETE of /api/tasks   *)
(* over the table task, requests handled one at a time                     *)
(***************************************************************************)
MaxApiCalls == 3

EmptyBody == << >>

PostBodies ==
    { EmptyBody, [title |-> 5], [title |-> 0], [title |-> LongTitle],
      [title |-> MaxTitleLen, description |-> 7, status |-> "completed", priority |-> "high"],
      [title |-> 5, status |-> "bogus"], [description |-> 7] }

PutBodies ==
    { EmptyBody, TitlePatch, StatusPatch, DescPriorityPatch, EmptyTitlePatch,
      [title |-> LongTitle], BadStatusPatch, BadPriorityPatch, [title |-> NoText] }

TaskIds == 1..2

Request(method, id, body) == Call(method, id, NoTask, body)

Response(code, val) == Result(code, val)

\* the integer primary key of a new row: one more than the largest id of the table
Api_new_id(rows) ==
    IF rows = << >> THEN 1
    ELSE 1 + CHOOSE n \in { rows[i].id : i \in 1..Len(rows) } :
                 \A i \in 1..Len(rows) : rows[i].id <= n

\* Task.query.get(task_id)
Api_query_get(rows, id) ==
    LET Hit(r) == r.id = id
    IN SelectSeq(rows, Hit)

\* Task(...) of create_task: description '' and the enums' defaults when not given
Api_new_task(rows, body, now) ==
    [ id |-> Api_new_id(rows),
      title |-> body.title,
      description |-> IF Has(body, "description") THEN body.description ELSE 0,
      status |-> TaskStatus(IF Has(body, "status") THEN body.status ELSE "pending"),
      priority |-> TaskPriority(IF Has(body, "priority") THEN body.priority ELSE "medium"),
      created_at |-> now ]

\* update_task's "Update task fields"
Api_apply(task, body) ==
    [ id |-> task.id,
      title |-> IF Has(body, "title") THEN body.title ELSE task.title,
      description |-> IF Has(body, "description") THEN body.description
                      ELSE task.description,
      status |-> IF Has(body, "status") THEN TaskStatus(body.status) ELSE task.status,
      priority |-> IF Has(body, "priority") THEN TaskPriority(body.priority)
                   ELSE task.priority,
      created_at |-> task.created_at ]

\* a request is received and answered: the response and the table after it
Api_handled(t, request, response, rows) ==
    /\ pc[t] = Idle
    /\ ncalls < MaxApiCalls
    /\ op' = [op EXCEPT ![t] = request]
    /\ ret' = [ret EXCEPT ![t] = response]
    /\ db' = rows
    /\ ncalls' = ncalls + 1
    /\ hist' = [hist EXCEPT !.prev = [op |-> op[t], ret |-> ret[t]]]
    /\ UNCHANGED <<file, tmp, lock, pc, cur, data, seen, crashed, file0>>

\* POST /api/tasks
Api_create_task(t) ==
    \E body \in PostBodies :
        LET errors == Api_validate_task_data(body, FALSE)
            task == Api_new_task(db, body, Now)
        IN IF body = EmptyBody
           THEN Api_handled(t, Request("POST", 0, body), Response("400", << >>), db)
           ELSE IF errors # << >>
           THEN Api_handled(t, Request("POST", 0, body), Response("400", errors), db)
           ELSE Api_handled(t, Request("POST", 0, body), Response("201", << task >>),
                            Append(db, task))

\* PUT /api/tasks/<task_id>; a title of null fails the commit (nullable=False): 500
Api_update_task(t) ==
    \E id \in TaskIds, body \in PutBodies :
        LET found == Api_query_get(db, id)
            errors == Api_validate_task_data(body, TRUE)
            request == Request("PUT", id, body)
        IN IF found = << >>
           THEN Api_handled(t, request, Response("404", << >>), db)
           ELSE IF body = EmptyBody
           THEN Api_handled(t, request, Response("400", << >>), db)
           ELSE IF errors # << >>
           THEN Api_handled(t, request, Response("400", errors), db)
           ELSE IF Api_apply(found[1], body).title = NoText
           THEN Api_handled(t, request, Response("500", << >>), db)
           ELSE Api_handled(t, request, Response("200", << Api_apply(found[1], body) >>),
                            [i \in 1..Len(db) |-> IF db[i].id = id
                                                  THEN Api_apply(db[i], body) ELSE db[i]])

\* DELETE /api/tasks/<task_id>
Api_delete_task(t) ==
    \E id \in TaskIds :
        LET found == Api_query_get(db, id)
            Other(r) == r.id # id
        IN IF found = << >>
           THEN Api_handled(t, Request("DELETE", id, EmptyBody), Response("404", << >>), db)
           ELSE Api_handled(t, Request("DELETE", id, EmptyBody),
                            Response("200", << found[1] >>), SelectSeq(db, Other))

\* db.create_all() on a new database file: the table is empty
InitApi ==
    /\ db = << >>
    /\ file = Absent /\ file0 = Absent /\ tmp = Absent /\ lock = NoThread
    /\ pc = [t \in Threads |-> Idle]
    /\ op = [t \in Threads |-> NoCall]
    /\ cur = [t \in Threads |-> NoTask]
    /\ data = [t \in Threads |-> << >>]
    /\ seen = [t \in Threads |-> Absent]
    /\ ret = [t \in Threads |-> NoResult]
    /\ ncalls = 0
    /\ crashed = FALSE
    /\ hist = [ overlap |-> FALSE, gone |-> {}, late |-> [t \in Threads |-> FALSE],
                variant |-> "session1_model1", prev |-> [op |-> NoCall, ret |-> NoResult],
                before |-> Absent, creates |-> 0 ]

NextApi ==
    \/ Api_create_task(Caller)
    \/ Api_update_task(Caller)
    \/ Api_delete_task(Caller)

SpecApi == InitApi /\ [][NextApi]_vars

(***************************************************************************)
(* Two threads on one JSONStorage of either variant, the process never     *)
(* dying, every thread that can take a step taking one in the end          *)
(***************************************************************************)
MaxLiveCalls == 2

LiveCalls ==
    { Call("save", task.id, task, NoPatch) :
         task \in { NewTask("a", 7, NoText, "COMPLETED"), NewTask("a", 0, NoText, "PENDING") } }
    \cup { Call("delete", "a", NoTask, NoPatch),
           Call("get_by_id", "a", NoTask, NoPatch),
           Call("get_all", "", NoTask, NoPatch) }

S4_storage_step(t) ==
    \/ S4_acquire(t)
    \/ S4_load(t)
    \/ S4_load_truncate(t)
    \/ S4_load_reset(t)
    \/ S4_save_open(t)
    \/ S4_save_dump(t)
    \/ S4_save_fail(t)
    \/ S4_save_replace(t)

InitLive ==
    /\ file \in { Garbage, MixedFile, Array(<< RawA, RawB >>) }
    /\ file0 = file
    /\ db = << >>
    /\ tmp = Absent
    /\ lock = NoThread
    /\ pc = [t \in Threads |-> Idle]
    /\ op = [t \in Threads |-> NoCall]
    /\ cur = [t \in Threads |-> NoTask]
    /\ data = [t \in Threads |-> << >>]
    /\ seen = [t \in Threads |-> Absent]
    /\ ret = [t \in Threads |-> NoResult]
    /\ ncalls = 0
    /\ crashed = FALSE
    /\ \E v \in Variants :
          hist = [ overlap |-> FALSE, gone |-> {}, late |-> [t \in Threads |-> FALSE],
                   variant |-> v ]

NextLive ==
    \/ \E t \in Threads :
          hist.variant = "session1_model2" /\ S1_call(t, LiveCalls, MaxLiveCalls)
    \/ \E t \in Threads :
          hist.variant = "session4_model4" /\ S4_call(t, LiveCalls, MaxLiveCalls)
    \/ \E t \in Threads : hist.variant = "session1_model2" /\ S1_storage_step(t)
    \/ \E t \in Threads : hist.variant = "session4_model4" /\ S4_storage_step(t)

\* the interpreter goes on scheduling every thread that is able to run
FairLive ==
    \A t \in Threads :
        /\ WF_vars(hist.variant = "session1_model2" /\ S1_storage_step(t))
        /\ WF_vars(hist.variant = "session4_model4" /\ S4_storage_step(t))

SpecLive == InitLive /\ [][NextLive]_vars /\ FairLive

(***************************************************************************)
(* One caller that also changes a field of the Task object a call returned *)
(* to it, without saving it                                                *)
(***************************************************************************)
MaxCopyCalls == 3

\* task.title = 'Updated Title'
Mutate(task) == [task EXCEPT !.title = 77]

\* the id of the task (or of the first task of the list) the call before returned
HeldId ==
    IF ret[Caller].tag \in {"task", "list"} /\ ret[Caller].val # << >>
    THEN {ret[Caller].val[1].id} ELSE {}

CopyCalls ==
    { Call("get_by_id", id, NoTask, NoPatch) : id \in {"a"} \cup HeldId }
    \cup { Call("get_all", "", NoTask, NoPatch) }
    \cup (IF hist.variant = "session4_model4" THEN {}
          ELSE { Call("create_task", "", NoTask, TitleOnly),
                 Call("update_task", "a", NoTask, StatusPatch) }
               \cup { Call("get_task", id, NoTask, NoPatch) : id \in HeldId })

\* as Caller_mutate, but the store shares the object: its record changes too
Caller_mutate_aliased(t) ==
    /\ ~crashed
    /\ pc[t] = Idle
    /\ ret[t].tag \in {"task", "list"} /\ ret[t].val # << >>
    /\ ret[t].val[1] # Mutate(ret[t].val[1])
    /\ ret' = [ret EXCEPT ![t].val[1] = Mutate(@)]
    /\ file' = IF file.kind = "array"
               THEN Array([i \in 1..Len(file.recs) |->
                              IF file.recs[i].id = ret[t].val[1].id
                              THEN Task_to_dict(Mutate(ret[t].val[1])) ELSE file.recs[i]])
               ELSE file
    /\ UNCHANGED <<tmp, lock, pc, op, cur, data, seen, ncalls, crashed, file0, hist, db>>

\* the caller assigns to a field of the Task it holds; JSONStorage keeps no Task
\* between calls (its fields are filepath and _lock), so nothing else changes
Caller_mutate(t) ==
    /\ ~crashed
    /\ pc[t] = Idle
    /\ ret[t].tag \in {"task", "list"} /\ ret[t].val # << >>
    /\ ret[t].val[1] # Mutate(ret[t].val[1])
    /\ ret' = [ret EXCEPT ![t].val[1] = Mutate(@)]
    /\ UNCHANGED <<file, tmp, lock, pc, op, cur, data, seen, ncalls, crashed, file0, hist, db>>

InitCopy == InitSeq({ Absent, Array(<< RawA, RawB >>) }, Variants)

NextCopy ==
    \/ JS_ensure_file_exists(Caller)
    \/ JS_ensure_dump(Caller)
    \/ Seq_call(Caller, CopyCalls, MaxCopyCalls)
    \/ Caller_mutate(Caller)
    \/ hist.variant = "session1_model2" /\ S1_storage_step(Caller)
    \/ hist.variant = "session1_model2" /\ TM_update_apply(Caller)
    \/ hist.variant = "session1_model2" /\ TM_create_task(Caller)
    \/ hist.variant = "session4_model4" /\ S4_acquire(Caller)
    \/ hist.variant = "session4_model4" /\ S4_load(Caller)

SpecCopy == InitCopy /\ [][NextCopy]_vars

(***************************************************************************)
(* One call run alone, start to end, on file f                             *)
(***************************************************************************)
\* session1_model2: save and delete; `failed`: the write of the temporary file failed
S1_alone(f, c, failed) ==
    CASE c.kind = "save" ->
            IF S1_Task_validate(c.task) # << >> \/ failed THEN f
            ELSE Array(Upsert(S1_load(f), S1_Task_to_dict(c.task)))
      [] c.kind = "delete" ->
            IF failed \/ Len(WithoutId(S1_load(f), c.id)) = Len(S1_load(f)) THEN f
            ELSE Array(WithoutId(S1_load(f), c.id))
      [] OTHER -> f

\* session4_model4: _load may reset the file before anything else happens
S4_alone(f, c, failed, now) ==
    LET loaded == IF S4_load_fails(f) THEN Array(<< >>) ELSE f
        tasks == IF S4_load_fails(f) THEN << >> ELSE S4_load_tasks(f, now)
    IN CASE c.kind = "save" ->
               IF failed THEN loaded
               ELSE Array(Map(Task_to_dict, Upsert(tasks, c.task)))
         [] c.kind = "delete" ->
               IF failed \/ Len(WithoutId(tasks, c.id)) = Len(tasks) THEN loaded
               ELSE Array(Map(Task_to_dict, WithoutId(tasks, c.id)))
         [] OTHER -> loaded

Failed(t) == ret[t].tag = "IOError"

\* both threads have made one call each, a save or a delete, and both have returned
TwoWritesReturned ==
    /\ ncalls = 2
    /\ \A t \in Threads : pc[t] = Idle /\ op[t].kind \in {"save", "delete"}

\* the claims' notion of a well-formed record
WellFormed(r) ==
    /\ r.status \in StatusValues
    /\ r.priority \in PriorityValues
    /\ IsoParsable(r.created_at)

InvalidSave4(t) == op[t].kind = "save" /\ Task_validate(op[t].task) # << >>
InvalidSave1(t) == op[t].kind = "save" /\ S1_Task_validate(op[t].task) # << >>

(***************************************************************************)
(* Claims                                                                  *)
(***************************************************************************)

\* C1: session1_model2: after two save/delete calls of two threads have both
\* returned, the file is what running the two calls one after the other, in one of
\* the two orders, produces from the file before them.
C1_SerializableS1 ==
    TwoWritesReturned =>
        \E t1 \in Threads : \E t2 \in Threads \ {t1} :
            file = S1_alone(S1_alone(file0, op[t1], Failed(t1)), op[t2], Failed(t2))

\* C2: session4_model4: at most one thread is between its load and its rename, and
\* after two save/delete calls of two threads have both returned the file is what
\* running them one after the other, in one of the two orders, produces.
C2_SerializableS4 ==
    /\ Cardinality({ t \in Threads : pc[t].at \in
           {"load", "load_reset", "save_open", "save_dump", "save_replace"} }) <= 1
    /\ TwoWritesReturned =>
          \E t1 \in Threads : \E t2 \in Threads \ {t1} :
              file = S4_alone(S4_alone(file0, op[t1], Failed(t1), Now), op[t2], Failed(t2), Now)

\* two overlapping saves of different ids have both returned and both records are stored
C2_Witness ==
    /\ TwoWritesReturned
    /\ hist.overlap
    /\ \E t1 \in Threads : \E t2 \in Threads \ {t1} :
          /\ op[t1].kind = "save" /\ op[t1].id = "a" /\ ret[t1].tag = "None"
          /\ op[t2].kind = "save" /\ op[t2].id = "c" /\ ret[t2].tag = "None"
    /\ file0 = Array(<< RawA, RawB >>)
    /\ Len(file.recs) = 3

\* C3: session1_model2: a get_task(id) that starts after delete_task(id) returned
\* True returns None, whatever update_task calls run beside it.
C3_DeleteIsTerminal ==
    \A t \in Threads :
        (pc[t] = Idle /\ op[t].kind = "get_task" /\ hist.late[t]) => ret[t].tag = "None"

\* C4: session1_model2: after two update_task calls on one id with patches of
\* disjoint fields have both returned a task, the stored record carries both patches.
C4_BothPatchesStored ==
    ( /\ ncalls = 2
      /\ \A t \in Threads : pc[t] = Idle /\ op[t].kind = "update_task" /\ ret[t].tag = "task"
      /\ \E t1 \in Threads : \E t2 \in Threads \ {t1} :
            /\ op[t1].id = op[t2].id
            /\ DOMAIN op[t1].patch \cap DOMAIN op[t2].patch = {} )
    => \A t \in Threads :
          LET stored == S1_get_by_id_task(S1_load(file), op[t].id)
          IN /\ stored.tag = "task"
             /\ TM_apply_updates(stored.val[1], op[t].patch) = stored.val[1]

\* C5: session4_model4: the backing file changes only by the rename of a fully
\* written temporary file, so a crash never leaves it truncated.
C5_OnlyRenameS4 ==
    /\ [][ file' # file =>
             \E t \in Threads : /\ pc[t].at = "save_replace"
                                /\ tmp = Array(Map(Task_to_dict, data[t]))
                                /\ file' = tmp ]_vars
    /\ [](crashed => file.kind # "empty")

\* C6: session1_model2: the backing file changes only by the rename of the fully
\* written temporary file of a save or delete, so a crash inside them leaves the
\* whole content from before or the whole new content.
C6_OnlyRenameS1 ==
    /\ [][ file' # file =>
             \E t \in Threads : /\ pc[t].at = "save_replace"
                                /\ pc[t].fn \in {"save", "delete"}
                                /\ tmp = Array(data[t])
                                /\ file' = Array(data[t]) ]_vars
    /\ [](crashed => file.kind # "empty")

\* the process has crashed inside _save, the temporary file half written
C6_Witness ==
    /\ crashed
    /\ \E t \in Threads : pc[t] = At("save", "save_dump") /\ tmp = Truncated
    /\ file = file0
    /\ file0 = MixedFile

\* C7: session4_model4: save of a task whose validate() is non-empty fails with a
\* validation error (when it returns without a failed write, it has raised the
\* validation error).
C7_SaveValidatesS4 ==
    \A t \in Threads :
        (InvalidSave4(t) /\ pc[t] = Idle /\ ~Failed(t)) => ret[t].tag = "ValueError"

\* C8: session1_model2: save of a task whose validate() is non-empty raises
\* ValueError before the file is read or written: the call is the one step of
\* validate, which leaves the file and the temporary file as they are.
C8_SaveValidatesS1 ==
    /\ [](\A t \in Threads : InvalidSave1(t) =>
             /\ pc[t] \in {At("save", "validate"), Idle}
             /\ seen[t] = Absent
             /\ (pc[t] = Idle => ret[t].tag = "ValueError"))
    /\ [][ \A t \in Threads : (InvalidSave1(t) /\ pc[t] # Idle /\ pc'[t] = Idle)
              => file' = file /\ tmp' = tmp /\ lock' = lock ]_vars

\* a save of an invalid task has returned ValueError
C8_Witness ==
    \E t \in Threads :
        /\ InvalidSave1(t) /\ pc[t] = Idle /\ ret[t].tag = "ValueError"
        /\ op[t].task.title = LongTitle
        /\ file = MixedFile /\ tmp = Absent

\* C9: session4_model4: get_all on a parsable array returns the well-formed
\* records, in file order, and skips the others.
C9_GetAllSkipsS4 ==
    \A t \in Threads :
        (pc[t] = Idle /\ op[t].kind = "get_all" /\ seen[t].kind = "array")
        => /\ ret[t].tag = "list"
           /\ Map(Task_to_dict, ret[t].val) = SelectSeq(seen[t].recs, WellFormed)

\* C10: session1_model2: get_all on a parsable array returns the well-formed
\* records, in file order, and skips the others; a save or delete that runs with no
\* write in between keeps every record of another id.
C10_GetAllSkipsS1 ==
    /\ [](\A t \in Threads :
             (pc[t] = Idle /\ op[t].kind = "get_all" /\ seen[t].kind = "array")
             => /\ ret[t].tag = "list"
                /\ Map(S1_Task_to_dict, ret[t].val) = SelectSeq(seen[t].recs, WellFormed))
    /\ [][ \A t \in Threads :
              ( /\ pc[t].at = "save_replace" /\ pc'[t] = Idle
                /\ file.kind = "array" /\ file = seen[t] )
              => /\ file'.kind = "array"
                 /\ WithoutId(file'.recs, op[t].id) = WithoutId(file.recs, op[t].id) ]_vars

\* get_all has returned the two well-formed records of the mixed file
C10_Witness ==
    \E t \in Threads :
        /\ pc[t] = Idle /\ op[t].kind = "get_all" /\ seen[t] = MixedFile
        /\ Len(ret[t].val) = 2
        /\ ret[t].val[1].id = "a" /\ ret[t].val[2].id = "b"

\* the records a file holds (none when it does not parse)
Stored(f) == IF f.kind = "array" THEN f.recs ELSE << >>

HasId(recs, id) == \E i \in 1..Len(recs) : recs[i].id = id

\* the caller's current call is of kind k and has returned
Returned(k) == pc[Caller] = Idle /\ op[Caller].kind = k

\* the call before the current one was of kind k, for the same id, and returned tag
After(k, tag) ==
    /\ hist.prev.op.kind = k
    /\ hist.prev.op.id = op[Caller].id
    /\ hist.prev.ret.tag = tag

C12_Construction ==
    /\ (pc[Caller] = Idle /\ ncalls = 0)
          => file = IF file0 = Absent THEN Array(<< >>) ELSE file0
    /\ (Returned("get_all") /\ ncalls = 1 /\ file0 = Absent)
          => ret[Caller] = Result("list", << >>)

\* constructed where no file existed, and the first call, get_all, returned []
C12_Witness ==
    /\ file0 = Absent /\ ncalls = 1 /\ Returned("get_all")
    /\ ret[Caller] = Result("list", << >>)
    /\ file = Array(<< >>)

\* C13: save is an upsert that keeps order: a stored id is replaced at its
\* position, the other records stay, same number and order; a new id is appended
\* as the last record.
C13_UpsertKeepsOrder ==
    (Returned("save") /\ ret[Caller].tag = "None") =>
        LET old == Stored(hist.before)
            new == Stored(file)
            id == op[Caller].id
        IN IF HasId(old, id)
           THEN /\ Len(new) = Len(old)
                /\ \A i \in 1..Len(old) :
                      IF i = IndexOfId(old, id) THEN new[i].id = id ELSE new[i] = old[i]
           ELSE /\ Len(new) = Len(old) + 1
                /\ SubSeq(new, 1, Len(old)) = old
                /\ new[Len(new)].id = id

\* C14: a save repeated with the same task leaves the file as the first save left
\* it, with exactly one record of that id.
C14_SaveTwice ==
    (Returned("save") /\ ret[Caller].tag = "None" /\ After("save", "None")
       /\ hist.prev.op = op[Caller])
    => /\ file = hist.before
       /\ Cardinality({ i \in 1..Len(Stored(file)) : Stored(file)[i].id = op[Caller].id }) = 1

\* the same valid task saved twice on a file of several records
C14_Witness ==
    /\ Returned("save") /\ ret[Caller].tag = "None" /\ After("save", "None")
    /\ hist.prev.op = op[Caller]
    /\ op[Caller].id = "c"
    /\ file0 = Array(<< RawA, RawB >>)
    /\ Len(file.recs) = 3

\* C16: delete returns True exactly when a record of the id is stored (never an
\* error for absence) and then leaves the other records in their order; right
\* after a True, get_by_id of the id returns None and a second delete returns False.
C16_Delete ==
    /\ (Returned("delete") /\ ~Failed(Caller)) =>
          /\ ret[Caller].tag = IF HasId(Stored(hist.before), op[Caller].id)
                               THEN "True" ELSE "False"
          /\ ret[Caller].tag = "True" =>
                Stored(file) = WithoutId(Stored(hist.before), op[Caller].id)
    /\ (Returned("get_by_id") /\ After("delete", "True")) => ret[Caller].tag = "None"
    /\ (Returned("delete") /\ After("delete", "True")) => ret[Caller].tag = "False"

\* no two records of the file share an id
UniqueIds(recs) == \A i, j \in 1..Len(recs) : recs[i].id = recs[j].id => i = j

\* C15: after N create_task calls in a row on an empty store, all successful,
\* get_all_tasks returns N records of N distinct ids; and whatever create, update
\* and delete calls have run, no two stored records share an id.
C15_Uniqueness ==
    /\ UniqueIds(Stored(file))
    /\ (Returned("get_all_tasks") /\ op[Caller].patch = NoPatch
          /\ file0 = Absent /\ hist.creates >= 0)
       => /\ ret[Caller].tag = "list"
          /\ Len(ret[Caller].val) = hist.creates
          /\ UniqueIds(ret[Caller].val)

\* two successful create_task calls on the empty store, then get_all_tasks gave two tasks
C15_Witness ==
    /\ Returned("get_all_tasks") /\ op[Caller].patch = NoPatch
    /\ file0 = Absent /\ hist.creates = 2
    /\ Len(ret[Caller].val) = 2

\* C17: create_task with only a valid title returns a task with that title, status
\* pending, priority medium, a new id and the creation time, and stores it; the
\* get_task of the returned id right after returns an equal task.
C17_CreateDefaults ==
    /\ (Returned("create_task") /\ op[Caller].patch = TitleOnly /\ ~Failed(Caller))
       => /\ ret[Caller].tag = "task"
          /\ LET task == ret[Caller].val[1]
             IN /\ task.title = TitleOnly.title
                /\ task.description = NoText
                /\ task.status = "PENDING"
                /\ task.priority = "MEDIUM"
                /\ ~HasId(Stored(hist.before), task.id)
                /\ task.created_at = Now
                /\ HasId(Stored(file), task.id)
    /\ (Returned("get_task") /\ hist.prev.op.kind = "create_task"
          /\ hist.prev.ret.tag = "task" /\ op[Caller].id = hist.prev.ret.val[1].id)
       => ret[Caller] = Result("task", << hist.prev.ret.val[1] >>)

\* create_task with a title only, then get_task of the id it returned
C17_Witness ==
    /\ Returned("get_task") /\ hist.prev.op.kind = "create_task"
    /\ hist.prev.op.patch = TitleOnly
    /\ hist.prev.ret.tag = "task" /\ op[Caller].id = hist.prev.ret.val[1].id
    /\ ret[Caller].tag = "task"

\* the input of create_task breaks a rule of the specification's section 4.1
InvalidInput(d) ==
    \/ d.title = NoText \/ d.title = 0 \/ d.title > 200
    \/ d.description # NoText /\ d.description > 1000
    \/ d.status \notin {"pending", "in-progress", "completed"}
    \/ d.priority \notin {"low", "medium", "high"}

\* C18: create_task with invalid input raises a validation error and persists
\* nothing: the file is what it was when the call started.
C18_CreateRejects ==
    (Returned("create_task") /\ InvalidInput(op[Caller].patch))
    => /\ ret[Caller].tag = "ValueError"
       /\ file = hist.before
       /\ tmp = Absent

\* create_task with an invalid status was rejected on a store of two records
C18_Witness ==
    /\ Returned("create_task") /\ op[Caller].patch.status = "bogus"
    /\ ret[Caller].tag = "ValueError"
    /\ file = Array(<< RawA, RawB >>)

\* every message of a rule that d breaks is among errors
AllReported(d, errors) ==
    LET Said(m) == \E i \in 1..Len(errors) : errors[i] = m
    IN /\ (d.title = NoText \/ d.title = 0) => Said("Title is required")
       /\ (d.description # NoText /\ d.description > 1000)
             => Said("Description must be less than 1000 characters")
       /\ d.status \notin {"pending", "in-progress", "completed"}
             => Said("Invalid status. Must be: pending, in-progress, or completed")
       /\ d.priority \notin {"low", "medium", "high"}
             => Said("Invalid priority. Must be: low, medium, or high")

\* C19: validation reports all violations together: the error of a rejected
\* create_task names every rule its input breaks, and so does validate_task_data
\* of session4_model4 on the same input.
C19_AllViolations ==
    (Returned("create_task") /\ InvalidInput(op[Caller].patch))
    => /\ ret[Caller].tag = "ValueError"
       /\ AllReported(op[Caller].patch, ret[Caller].val)
       /\ AllReported(op[Caller].patch, validate_task_data(op[Caller].patch, FALSE))

\* create_task with an empty title and a description of 1001 characters was
\* rejected with the two messages
C19_Witness ==
    /\ Returned("create_task")
    /\ op[Caller].patch.title = 0 /\ op[Caller].patch.description = LongDesc
    /\ ret[Caller].tag = "ValueError"
    /\ Len(ret[Caller].val) = 2

\* C20: get_all_tasks raises the invalid-filter error exactly when a filter is
\* given (is not None) and is no member of its set.
C20_InvalidFilter ==
    Returned("get_all_tasks") =>
        LET f == op[Caller].patch
            bad == \/ Has(f, "status_filter") /\ f.status_filter \notin StatusValues
                   \/ Has(f, "priority_filter") /\ f.priority_filter \notin PriorityValues
        IN (ret[Caller].tag = "ValueError") <=> bad

\* C20 (amended): get_all_tasks raises the invalid-filter error exactly when a
\* filter is given, is not the empty string, and is no member of its set; a filter
\* that is None or the empty string is no filter.
C20_InvalidFilterNonEmpty ==
    Returned("get_all_tasks") =>
        LET f == op[Caller].patch
            bad == \/ /\ Has(f, "status_filter") /\ f.status_filter # ""
                      /\ f.status_filter \notin StatusValues
                   \/ /\ Has(f, "priority_filter") /\ f.priority_filter # ""
                      /\ f.priority_filter \notin PriorityValues
        IN (ret[Caller].tag = "ValueError") <=> bad

\* get_all_tasks with the empty string as status filter returned the whole list
C20_Witness ==
    /\ Returned("get_all_tasks") /\ op[Caller].patch = [status_filter |-> ""]
    /\ file = Array(<< RawA, RawB >>)
    /\ ret[Caller].tag = "list" /\ Len(ret[Caller].val) = 2

\* the filters of get_all_tasks are each absent or a member of their set
ValidFilters(f) ==
    /\ Has(f, "status_filter") => f.status_filter \in StatusValues
    /\ Has(f, "priority_filter") => f.priority_filter \in PriorityValues

\* C21: with valid filters get_all_tasks returns exactly the stored tasks that
\* match every filter given (status and priority together), in the order of the
\* file; with no filter it returns all of them.
C21_FiltersConjoin ==
    (Returned("get_all_tasks") /\ ValidFilters(op[Caller].patch) /\ ~Failed(Caller)) =>
        LET f == op[Caller].patch
            Match(r) == /\ Has(f, "status_filter") => r.status = f.status_filter
                        /\ Has(f, "priority_filter") => r.priority = f.priority_filter
            got == ret[Caller].val
        IN /\ ret[Caller].tag = "list"
           /\ [i \in 1..Len(got) |-> S1_Task_to_dict(got[i])] = SelectSeq(Stored(file), Match)
           /\ f = NoPatch => Len(got) = Len(Stored(file))

\* status pending and priority medium each match a stored task, no task matches both
C21_Witness ==
    /\ Returned("get_all_tasks")
    /\ op[Caller].patch = [status_filter |-> "pending", priority_filter |-> "medium"]
    /\ file = Array(<< RawA, RawB >>)
    /\ ret[Caller] = Result("list", << >>)

\* the record of that id in a sequence of records that holds one
RecordOf(recs, id) == recs[IndexOfId(recs, id)]

\* update_task has returned the updated task
Updated == Returned("update_task") /\ ret[Caller].tag = "task"

\* C22: a successful update_task(id, patch) gives each of title, description,
\* status and priority that the patch names the patch's value and leaves the
\* fields it does not name, and every other record, as they were; the task
\* returned is the record stored.
C22_OnlyNamedFields ==
    Updated =>
        LET old == Stored(hist.before)
            new == Stored(file)
            id == op[Caller].id
            patch == op[Caller].patch
            Fields == {"title", "description", "status", "priority"}
        IN /\ HasId(old, id)
           /\ Len(new) = Len(old)
           /\ \A i \in 1..Len(old) : i # IndexOfId(old, id) => new[i] = old[i]
           /\ \A k \in Fields :
                 new[IndexOfId(old, id)][k] = IF Has(patch, k) THEN patch[k]
                                              ELSE RecordOf(old, id)[k]
           /\ S1_Task_to_dict(ret[Caller].val[1]) = new[IndexOfId(old, id)]

\* a patch of the status alone completed task a of two; title and priority stayed
C22_Witness ==
    /\ Updated /\ op[Caller].id = "a" /\ op[Caller].patch = StatusPatch
    /\ hist.before = Array(<< RawA, RawB >>)
    /\ file = Array(<< [RawA EXCEPT !.status = "completed"], RawB >>)

\* C23: update_task never changes id or created_at, also when the patch has keys
\* 'id' or 'created_at': the record stays under its id with its creation time,
\* and no record of another id appears.
C23_IdAndCreatedAtKept ==
    Updated =>
        LET old == Stored(hist.before)
            new == Stored(file)
            id == op[Caller].id
        IN /\ HasId(old, id) /\ HasId(new, id)
           /\ RecordOf(new, id).created_at = RecordOf(old, id).created_at
           /\ ret[Caller].val[1].id = id
           /\ isoformat(ret[Caller].val[1].created_at) = RecordOf(old, id).created_at
           /\ \A i \in 1..Len(new) : HasId(old, new[i].id)

\* a patch naming id, created_at and title changed the title of task a only
C23_Witness ==
    /\ Updated /\ op[Caller].id = "a" /\ op[Caller].patch = IdPatch
    /\ hist.before = Array(<< RawA, RawB >>)
    /\ file = Array(<< [RawA EXCEPT !.title = 9], RawB >>)

\* C24: update_task of an id that is not stored fails with not-found and writes
\* nothing, whatever the patch: the task is looked for before the patch is
\* validated.
C24_MissingIdFirst ==
    (Returned("update_task") /\ ~HasId(Stored(hist.before), op[Caller].id)
       /\ ~Failed(Caller))
    => /\ ret[Caller].tag = "NotFound"
       /\ file = hist.before
       /\ tmp = Absent

\* an invalid patch for an id that is not stored was answered with not-found
C24_Witness ==
    /\ Returned("update_task") /\ op[Caller].id = "nope"
    /\ op[Caller].patch = BadStatusPatch
    /\ file = Array(<< RawA, RawB >>)
    /\ ret[Caller].tag = "NotFound"

\* the patch names a field with a value that breaks a rule
InvalidPatch(p) ==
    \/ Has(p, "title") /\ (Falsy(p.title) \/ p.title > 200)
    \/ Has(p, "description") /\ p.description # NoText /\ p.description > 1000
    \/ Has(p, "status") /\ p.status \notin {"pending", "in-progress", "completed"}
    \/ Has(p, "priority") /\ p.priority \notin {"low", "medium", "high"}

\* C25: update_task of a stored id with a patch that breaks a rule raises a
\* validation error and persists nothing, the valid fields of the patch neither.
C25_NoPartialUpdate ==
    (Returned("update_task") /\ HasId(Stored(hist.before), op[Caller].id)
       /\ InvalidPatch(op[Caller].patch))
    => /\ ret[Caller].tag = "ValueError"
       /\ file = hist.before
       /\ tmp = Absent

\* a patch with a valid title and an invalid status left task a as it was
C25_Witness ==
    /\ Returned("update_task") /\ op[Caller].id = "a"
    /\ op[Caller].patch = BadStatusPatch
    /\ ret[Caller].tag = "ValueError"
    /\ file = Array(<< RawA, RawB >>)

\* C27: session1_model2 started on an empty store: whatever create_task,
\* update_task and delete_task calls have run, every stored record has a title of
\* 1 to 200 characters, a description that is null or of at most 1000 characters,
\* and a status and a priority of their sets.
C27_StoredRecordsValid ==
    file0 = Absent =>
        \A i \in 1..Len(Stored(file)) :
            LET r == Stored(file)[i]
            IN /\ r.title \in 1..200
               /\ r.description = NoText \/ r.description \in 0..1000
               /\ r.status \in {"pending", "in-progress", "completed"}
               /\ r.priority \in {"low", "medium", "high"}

\* on the empty store a task was created, then given a new title, and then an
\* update of it with an empty title was rejected
C27_Witness ==
    /\ file0 = Absent /\ ncalls = 3
    /\ Returned("update_task") /\ op[Caller].patch = EmptyTitlePatch
    /\ ret[Caller].tag = "ValueError"
    /\ hist.prev.op.kind = "update_task" /\ hist.prev.op.patch = TitlePatch
    /\ hist.prev.ret.tag = "task"
    /\ Len(Stored(file)) = 1 /\ Stored(file)[1].title = 9

\* the message is one of the errors
Reports(errors, m) == \E i \in 1..Len(errors) : errors[i] = m

\* C26: validate_task_data in partial mode skips only the rule that a title is
\* required: for data with a title of more than 200 characters it still reports
\* the title's length (session4_model4/models.py and session1_model1/app.py).
C26_PartialKeepsLength ==
    ( /\ Returned("validate_task_data") \/ Returned("api_validate_task_data")
      /\ op[Caller].partial )
    => LET d == op[Caller].patch
       IN /\ ~Reports(ret[Caller].val, "Title is required")
          /\ (Has(d, "title") /\ d.title > 200)
                => Reports(ret[Caller].val, "Title must be less than 200 characters")

\* C29: Task.from_dict of session4_model4 never defaults a value it cannot
\* accept: a record whose status or priority is no member of its set (the empty
\* string too) or whose created_at does not parse raises ValueError.
C29_FromDictNeverDefaults ==
    Returned("from_dict") =>
        LET d == op[Caller].patch
        IN ( \/ d.status \notin {"pending", "in-progress", "completed"}
             \/ d.priority \notin {"low", "medium", "high"}
             \/ ~IsoParsable(d.created_at) )
           => ret[Caller].tag = "ValueError"

\* C30: for a valid Task t of session4_model4, from_dict(to_dict(t)) equals t in
\* all six fields, and to_dict writes status and priority as their lowercase values.
C30_RoundTrip ==
    ( /\ Returned("from_dict") /\ hist.prev.op.kind = "to_dict"
      /\ op[Caller].patch = hist.prev.ret.val[1]
      /\ Task_validate(hist.prev.op.task) = << >> )
    => LET t == hist.prev.op.task
           d == op[Caller].patch
           Lower == [ PENDING |-> "pending", IN_PROGRESS |-> "in-progress",
                      COMPLETED |-> "completed", LOW |-> "low", MEDIUM |-> "medium",
                      HIGH |-> "high" ]
       IN /\ d.status = Lower[t.status]
          /\ d.priority = Lower[t.priority]
          /\ ret[Caller].tag = "task"
          /\ \A k \in {"id", "title", "description", "status", "priority", "created_at"} :
                ret[Caller].val[1][k] = t[k]

\* a completed task of high priority with a description of 1000 characters came
\* back from from_dict(to_dict(t))
C30_Witness ==
    /\ Returned("from_dict") /\ hist.prev.op.kind = "to_dict"
    /\ hist.prev.op.task = TaskOf(1, MaxDescLen, "COMPLETED", "HIGH", 3)
    /\ op[Caller].patch = hist.prev.ret.val[1]
    /\ ret[Caller].tag = "task"

\* C28: session1_model1: whatever POST, PUT and DELETE requests have been
\* handled, every row of the table has a title that is not empty and has at most
\* 200 characters.
C28_TitlesValid ==
    \A i \in 1..Len(db) : db[i].title \in 1..200

\* C31: a Task that get_by_id, get_all, create_task or update_task returned is
\* the caller's own copy: after the caller changed a field of it without saving,
\* the get_by_id (get_task) of its id that follows returns the stored, old value,
\* and the file holds the old record.
C31_ReturnedCopies ==
    [][ ( /\ pc[Caller] # Idle /\ pc'[Caller] = Idle
          /\ op[Caller].kind \in {"get_by_id", "get_task"}
          /\ hist.prev.op.kind \in {"get_by_id", "get_all", "create_task", "update_task"}
          /\ hist.prev.ret.tag \in {"task", "list"} /\ hist.prev.ret.val # << >>
          /\ hist.prev.ret.val[1].id = op[Caller].id
          /\ hist.prev.ret.val[1].title = 77
          /\ ~Failed(Caller)' )
        => /\ ret'[Caller].tag = "task"
           /\ Mutate(ret'[Caller].val[1]) = hist.prev.ret.val[1]
           /\ ret'[Caller].val[1].title # 77
           /\ file' = hist.before
           /\ HasId(Stored(file'), op[Caller].id)
           /\ Task_to_dict(ret'[Caller].val[1]) = RecordOf(Stored(file'), op[Caller].id)
      ]_vars

\* session4_model4: the caller changed the title of the first task get_all
\* returned, and get_by_id then returned task a with its stored title
C31_Witness ==
    /\ hist.variant = "session4_model4"
    /\ Returned("get_by_id") /\ op[Caller].id = "a"
    /\ hist.prev.op.kind = "get_all" /\ hist.prev.ret.tag = "list"
    /\ Len(hist.prev.ret.val) = 2 /\ hist.prev.ret.val[1].title = 77
    /\ ret[Caller].tag = "task" /\ ret[Caller].val[1].title = 1
    /\ file = Array(<< RawA, RawB >>)

\* the errors are what the length rules of a title and a description demand
LimitsInclusive(title, description, errors) ==
    /\ (title \in {1, 200} /\ (description = NoText \/ description <= 1000))
          => /\ ~Reports(errors, "Title is required")
             /\ ~Reports(errors, "Title must be less than 200 characters")
             /\ ~Reports(errors, "Description must be less than 1000 characters")
    /\ title = 201 => Reports(errors, "Title must be less than 200 characters")
    /\ description = 1001 => Reports(errors, "Description must be less than 1000 characters")

\* C32: the length limits are inclusive: Task.validate and validate_task_data of
\* session4_model4 accept a title of 1 and of 200 characters and a description of
\* 1000, and reject a title of 201 and a description of 1001 characters.
C32_InclusiveLimits ==
    /\ Returned("validate") =>
          /\ LimitsInclusive(op[Caller].task.title, op[Caller].task.description,
                             ret[Caller].val)
          /\ (op[Caller].task.title \in {1, 200} /\ op[Caller].task.description <= 1000)
                => ret[Caller].val = << >>
    /\ (Returned("validate_task_data") /\ ~op[Caller].partial
          /\ Has(op[Caller].patch, "title"))
       => LimitsInclusive(op[Caller].patch.title,
                          IF Has(op[Caller].patch, "description")
                          THEN op[Caller].patch.description ELSE NoText,
                          ret[Caller].val)

\* Task.validate accepted a task with a title of 200 and a description of 1000
\* characters
C32_Witness ==
    /\ Returned("validate")
    /\ op[Caller].task.title = 200 /\ op[Caller].task.description = 1000
    /\ ret[Caller] = Result("errors", << >>)

\* C33: no storage call blocks for ever (both variants, threads scheduled
\* fairly): every call that has started returns or raises in the end, no thread
\* waits for the lock while it holds it, and a thread that is in no call holds no
\* lock, also after a failed write.
C33_NoBlocking ==
    /\ [](\A t \in Threads :
             /\ pc[t].at \in {"acquire", "load_acq", "save_acq"} => lock # t
             /\ pc[t] = Idle => lock # t)
    /\ \A t \in Threads : (pc[t] # Idle) ~> (pc[t] = Idle)

\* session1_model2: two overlapping calls have returned, one of them a save whose
\* write failed, and the lock is free
C33_Witness ==
    /\ hist.variant = "session1_model2" /\ hist.overlap
    /\ ncalls = 2 /\ \A t \in Threads : pc[t] = Idle
    /\ \E t \in Threads : op[t].kind = "save" /\ ret[t].tag = "IOError"
    /\ \E t \in Threads : op[t].kind = "get_all" /\ ret[t].tag = "list"
    /\ lock = NoThread

\* C34: when the write of the temporary file fails in save or delete (both
\* variants), the call raises and the backing file is exactly what it was before
\* the call.
C34_FailedWriteKeepsFile ==
    ((Returned("save") \/ Returned("delete")) /\ Failed(Caller))
    => /\ Raised(ret[Caller])
       /\ file = hist.before

(***************************************************************************)
(* session1_model2 app.py: the PUT route over TaskManager.update_task      *)
(***************************************************************************)
MaxAppCalls == 3

AppPutCalls ==
    { Call("update_task", id, NoTask, p) :
         id \in {"a", "nope"},
         p \in { << >>, StatusPatch, TitlePatch, EmptyTitlePatch,
                 BadStatusPatch, LongTitlePatch } }

\* the request is answered before the manager is called
App_rejected(d) == d = << >> \/ S1_validate_task_data(d, TRUE) # << >>

\* PUT /api/tasks/<task_id>: `if not data` and the partial validation answer 400
\* at once; otherwise task_manager.update_task(task_id, data) is entered
App_update_task(t) ==
    /\ pc[t] = Idle
    /\ ncalls < MaxAppCalls
    /\ \E c \in AppPutCalls :
          /\ op' = [op EXCEPT ![t] = c]
          /\ cur' = [cur EXCEPT ![t] = NoTask]
          /\ pc' = [pc EXCEPT ![t] = IF App_rejected(c.patch) THEN Idle ELSE Seq_entry(c)]
          /\ ret' = [ret EXCEPT ![t] = IF App_rejected(c.patch) THEN Result("response", 400)
                                       ELSE NoResult]
          /\ hist' = [ Started(t, c.id) EXCEPT
                          !.prev = [op |-> op[t], ret |-> ret[t]],
                          !.before = file ]
    /\ seen' = [seen EXCEPT ![t] = Absent]
    /\ ncalls' = ncalls + 1
    /\ UNCHANGED <<file, tmp, lock, data, crashed, file0, db>>

\* the status code of the response, from what update_task returned or raised
App_update_response(r) ==
    CASE r.tag = "response" -> r.val
      [] r.tag = "task" -> 200
      [] r.tag = "NotFound" -> 404             \* 'not found' in str(e).lower()
      [] r.tag = "ValueError" -> 400
      [] OTHER -> 500

InitApp == InitSeq({ Absent, Array(<< RawA, RawB >>) }, {"session1_model2"})

NextApp ==
    \/ JS_ensure_file_exists(Caller)
    \/ JS_ensure_dump(Caller)
    \/ App_update_task(Caller)
    \/ S1_load_acquire(Caller)
    \/ S1_get_by_id(Caller)
    \/ TM_update_apply(Caller)
    \/ S1_save_validate(Caller)
    \/ S1_save_load(Caller)
    \/ S1_save_acquire(Caller)
    \/ S1_save_open(Caller)
    \/ S1_save_dump(Caller)
    \/ S1_save_fail(Caller)
    \/ S1_save_replace(Caller)

SpecApp == InitApp /\ [][NextApp]_vars

StoredIds(f) == { f.recs[i].id : i \in DOMAIN f.recs }

\* C35: in session1_model2 a PUT with a non-empty body for an id that is not stored
\* answers 404 whatever the fields of the body, and the file is left as it was.
C35_PutMissingIs404 ==
    ( /\ Returned("update_task")
      /\ op[Caller].patch # << >>
      /\ op[Caller].id \notin StoredIds(hist.before) )
    => /\ App_update_response(ret[Caller]) = 404
       /\ file = hist.before

(***************************************************************************)
(* One read and one write from two threads, against the two orders in      *)
(* which the calls can run one after the other                             *)
(***************************************************************************)
\* what read call c returns when it runs alone on file f
ReadAlone(f, c) ==
    IF hist.variant = "session1_model2"
    THEN { IF c.kind = "get_all" THEN Result("list", S1_get_all_tasks(S1_load(f)))
           ELSE S1_get_by_id_task(S1_load(f), c.id) }
    ELSE { LET tasks == IF S4_load_fails(f) THEN << >> ELSE S4_load_tasks(f, now)
           IN IF c.kind = "get_all" THEN Result("list", tasks)
              ELSE S4_get_by_id_task(tasks, c.id) : now \in 0..ncalls }

\* the files write call c can leave when it runs alone on file f
WriteAlone(f, c) ==
    IF hist.variant = "session1_model2"
    THEN {f} \cup
         (IF c.kind = "save"
          THEN IF S1_Task_validate(c.task) # << >> THEN {}
               ELSE { Array(Upsert(S1_load(f), S1_Task_to_dict(c.task))) }
          ELSE { Array(WithoutId(S1_load(f), c.id)) })
    ELSE { LET tasks == IF S4_load_fails(f) THEN << >> ELSE S4_load_tasks(f, now)
           IN Array(Map(Task_to_dict,
                        IF c.kind = "save" THEN Upsert(tasks, c.task)
                        ELSE WithoutId(tasks, c.id))) : now \in 0..ncalls }
         \cup (IF S4_load_fails(f) THEN { Array(<< >>) } ELSE { f })

\* thread t has returned from a read that overlapped the only other call, a write
\* of thread u
ReadOverWrite(t, u) ==
    /\ ncalls = 2
    /\ hist.overlap
    /\ pc[t] = Idle
    /\ op[t].kind \in {"get_all", "get_by_id"}
    /\ op[u].kind \in {"save", "delete"}

\* C36: a get_all or get_by_id that overlaps a save or delete (both variants)
\* returns what it returns on the file as it was before the write or on the file
\* as the write leaves it.
C36_ReadSeesBeforeOrAfter ==
    \A t, u \in Threads :
        ReadOverWrite(t, u)
        => \E f \in {file0} \cup WriteAlone(file0, op[u]) : ret[t] \in ReadAlone(f, op[t])

C36_Witness ==
    \E t, u \in Threads :
        /\ ReadOverWrite(t, u)
        /\ file0 = Array(<< RawA, RawB >>)
        /\ op[u].kind = "delete"
        /\ pc[u] = Idle
        /\ op[t].kind = "get_all"
        /\ ret[t] \notin ReadAlone(file0, op[t])

IsRead(c) == c.kind \in {"get_all", "get_by_id"}

NoRecords(c) == IF c.kind = "get_all" THEN Result("list", << >>) ELSE Result("None", << >>)

\* C37: session4_model4: a get_all or get_by_id on a file that does not load (not
\* JSON, or a record from_dict rejects) returns the empty result with the file
\* rewritten as an empty array, and the read that follows returns no records either.
C37_ReadResetsFile ==
    hist.variant = "session4_model4" =>
        /\ (pc[Caller] = Idle /\ IsRead(op[Caller]) /\ S4_load_fails(hist.before))
              => /\ ret[Caller] = NoRecords(op[Caller])
                 /\ file = Array(<< >>)
        /\ ( /\ pc[Caller] = Idle /\ IsRead(op[Caller]) /\ ncalls = 2
             /\ IsRead(hist.prev.op) /\ S4_load_fails(file0) )
              => /\ ret[Caller] = NoRecords(op[Caller])
                 /\ hist.before = Array(<< >>)

C37_Witness ==
    /\ hist.variant = "session4_model4"
    /\ file0 = MixedFile
    /\ ncalls = 2
    /\ Returned("get_by_id") /\ op[Caller].id = "a"
    /\ hist.prev.op.kind = "get_all"
    /\ ret[Caller] = Result("None", << >>)
    /\ file = Array(<< >>)

\* C38: session1_model2: get_all and get_by_id leave the backing file as it was
\* before the call, whatever it holds (not JSON, malformed records).
C38_ReadsReadOnlyS1 ==
    (hist.variant = "session1_model2" /\ pc[Caller] = Idle /\ IsRead(op[Caller]))
    => file = hist.before

C38_Witness ==
    /\ hist.variant = "session1_model2"
    /\ Returned("get_all")
    /\ hist.before = Garbage
    /\ file = Garbage
    /\ ret[Caller] = Result("list", << >>)

\* C39: delete(id) for an id that is not stored returns False with the backing file
\* as it was before the call, and the first call of a storage creates no temporary
\* file (both variants).
C39_DeleteMissingWritesNothing ==
    (Returned("delete") /\ ~HasId(Stored(hist.before), op[Caller].id))
    => /\ ret[Caller].tag = "False"
       /\ file = hist.before
       /\ ncalls = 1 => tmp = Absent

\* C40: session1_model2, on a file that is a JSON array of objects: a delete whose
\* write does not fail returns True exactly when the get_by_id of the same id made
\* just before it returned a task.
C40_DeleteAgreesWithGetById ==
    ( /\ hist.variant = "session1_model2"
      /\ Returned("delete") /\ ~Failed(Caller)
      /\ hist.prev.op.kind = "get_by_id"
      /\ hist.prev.op.id = op[Caller].id
      /\ hist.before.kind = "array" )
    => (ret[Caller].tag = "True" <=> hist.prev.ret.tag = "task")

====
